---- MODULE Spec2Model ----
(***************************************************************************)
(* The FFI layer of aries-askar (src/ffi/store.rs): the three handle       *)
(* registries FFI_STORES, FFI_SESSIONS and FFI_SCANS, and the tasks that   *)
(* the extern "C" entry points spawn with spawn_ok.  A task is one async   *)
(* block; its steps are the code between two suspension points (.await).   *)
(***************************************************************************)
EXTENDS Integers, FiniteSets, Sequences, TLC

\* ------------------------------------------------------------------ bounds
NumTasks == 2      \* tasks that may be in flight at once
MaxStores == 1     \* store handles FFI_STORE_COUNTER may hand out
MaxSessions == 2   \* session handles FFI_SESSION_COUNTER may hand out
MaxScans == 2      \* scan handles FFI_SCAN_COUNTER may hand out
ScanLen == 2       \* batches the backend holds for one scan
NumCallers == 2    \* threads that may call askar_entry_set_next at once
MaxRows == 2       \* rows an FfiEntrySet may hold
MaxNextCalls == 4  \* calls of FfiEntrySet::next on one entry set
NumProvisioners == 2 \* tests that may call TestDB::provision at once
MaxLockTxns == 2   \* lock connections one provisioner may have open
MaxRecipientLen == 4 \* characters of a recipient_vks argument

Tasks == 1..NumTasks
NoTask == 0
StoreHandles == 1..MaxStores
SessionHandles == 1..MaxSessions
ScanHandles == 1..MaxScans
PassKeys == {1, 2}     \* pass keys a caller may supply
Names == {1}           \* entry names a caller may supply
Flags == {0, 1}        \* i8 flags a caller may supply (as_transaction, commit)
Operations == {0, 1, 2} \* i8 operation codes of askar_session_update
\* An FfiStr argument: a null pointer, the empty string, or a string that
\* is not empty (a name of Names; a JSON text is 1 when it parses and
\* BadJson when it does not).
NullPtr == -1
EmptyStr == 0
BadJson == 2
FfiStrs == {NullPtr, EmptyStr} \cup Names
Limits == -2..1          \* i64 values a caller may pass as limit
JsonStrs == {1, BadJson}
OperationCodes == -1..3  \* i8 values a caller may pass as operation
ExpiryMs == -2..1        \* i64 values a caller may pass as expiry_ms
Buffers == {NullPtr, EmptyStr, 1} \* ByteBuffer arguments: null, of length 0, with bytes
Callers == 1..NumCallers
Provisioners == 1..NumProvisioners
NoProvisioner == 0

\* ErrorKind of err_msg!(...) given no kind: the kind the spec gives for
\* "Category not provided" and "Invalid update operation".
DefaultKind == "Input"

\* A slot of FFI_SCANS: no entry for the handle, None (checked out), or
\* Some(scan), the scan being its position 0..ScanLen.
NoEntry == -2
InUse == -1

VARIABLES
    FFI_STORE_COUNTER,    \* handles handed out so far, per registry
    FFI_SESSION_COUNTER,
    FFI_SCAN_COUNTER,
    FFI_STORES,           \* [StoreHandles -> BOOLEAN]: the map holds an Arc<AnyStore>
    FFI_SESSIONS,         \* [SessionHandles -> BOOLEAN]: the map holds an Arc<Mutex<AnySession>>
    FFI_SESSIONS_lock,    \* task holding the FFI_SESSIONS mutex across a suspension, or NoTask
    FFI_SCANS,            \* [ScanHandles -> NoEntry, InUse or a scan position]
    anyStore,             \* the AnyStore created for each handle
    anySession,           \* the Mutex<AnySession> created for each handle
    task,                 \* the spawned tasks that have not finished
    callback,             \* the callback the step just taken invoked, if any
    catch_err,            \* the call the step just taken refused in catch_err!, if any
    pass_key,             \* keys/types.rs: the PassKey under test
    params,               \* keys/types.rs: the KeyParams under test
    result,               \* keys/types.rs: what the last operation on them gave
    released,             \* keys/types.rs: prv_key bytes left in memory that was freed
    session_update,       \* the arguments the step just taken gave Session::update, if any
    entry_set,            \* an FfiEntrySet, the calls of next() in flight and what they returned
    test_db,              \* postgres/test_db.rs: each provisioner's TestDB and its place in provision
    postgres              \* postgres/test_db.rs: the advisory lock and the tables of the database

ffiVars == <<FFI_STORE_COUNTER, FFI_SESSION_COUNTER, FFI_SCAN_COUNTER, FFI_STORES,
             FFI_SESSIONS, FFI_SESSIONS_lock, FFI_SCANS, anyStore, anySession, task, callback,
             session_update>>
typesVars == <<pass_key, params, result, released>>
dbVars == <<test_db, postgres>>
vars == <<ffiVars, catch_err, typesVars, entry_set, dbVars>>

\* ------------------------------------------------------------------ state
NoStore == [state |-> "none", key |-> 0, rows |-> {}]
\* state: "open"; "committed" once commit() has run; "dropped" once the
\* session was dropped without a commit: ins and del are then the buffered
\* mutations the backend rolled back.
NoSession == [state |-> "none", store |-> 0, txn |-> FALSE, lock |-> NoTask,
              ins |-> {}, del |-> {}]
\* A task in flight.  op: its entry point; pc: its next step; h: the handle
\* argument; arg, name: the other arguments; store: the Arc<AnyStore> it
\* holds; scan: the Scan it holds; res: the result it has so far; category:
\* the category argument of a session operation; value, expiry_ms: what an
\* update captured; recipient_vks: the recipients a pack_message parsed.
IdleTask == [op |-> "none", pc |-> "idle", h |-> 0, arg |-> 0, category |-> 0, name |-> 0,
             store |-> 0, scan |-> NoEntry, res |-> 0, value |-> <<>>, expiry_ms |-> <<>>,
             recipient_vks |-> <<>>]
\* cb.resolve(result): the callback a step invokes when it ends its task.
\* op, h, arg: the call it answers; err, res: the error code and the result
\* it is given; note: the path the task took (kept for the properties).
NoCallback == [op |-> "none", h |-> 0, arg |-> 0, err |-> "", res |-> 0, note |-> ""]
\* catch_err! { .. }: an entry point whose block ends in Err before it has
\* spawned a task returns the error's code to its caller.  op: the entry
\* point; arg: its operation or limit argument; cb: whether it was given a
\* callback; err: the kind returned.
NoError == [op |-> "none", arg |-> 0, cb |-> FALSE, err |-> ""]
\* keys/types.rs values while the FFI layer runs
NoPassKey == [some |-> FALSE, owned |-> FALSE, str |-> ""]
NoParams == [alg |-> [variant |-> "none", other |-> ""], metadata |-> <<>>, reference |-> <<>>, pub_key |-> <<>>, prv_key |-> <<>>]
NoResult == [fn |-> "none", of |-> NoPassKey, other |-> NoPassKey, val |-> FALSE]
\* session.update(operation, &category, &name, value, tags, expiry_ms): the
\* operation, the value and the expiry the session is given (Options as
\* sequences: <<>> is None, <<v>> is Some(v)).
NoUpdate == [operation |-> "none", value |-> <<>>, expiry_ms |-> <<>>]
\* What the task of a session operation captured besides its keys: the
\* value and the expiry of an update, the recipients of a pack_message.
NoCapture == [value |-> <<>>, expiry_ms |-> <<>>, recipient_vks |-> <<>>]
\* FfiEntrySet { pos: AtomicUsize, rows: Vec<FfiEntry> } behind an
\* EntrySetHandle.  next: for each caller, where its call of next() stands
\* and the position fetch_add gave it; returned: what the calls that are
\* over wrote to *found and *entry, in the order they ended.
NoEntrySet == [created |-> FALSE, rows |-> <<>>, pos |-> 0,
               next |-> [c \in Callers |-> [pc |-> "idle", pos |-> 0]],
               returned |-> <<>>]
\* TestDB { inst: Option<Store<PostgresStore>>, lock_txn: Option<PgConnection> }
\* and the place of its provisioner in TestDB::provision or in drop.
\* lock_txn: the lock connections the provisioner has open; inst: its
\* store is open; err: the error its last provision returned, if any.
NoTestDB == [pc |-> "none", lock_txn |-> 0, inst |-> FALSE, err |-> ""]
\* The database: the provisioners whose transactions hold advisory lock
\* 99999, and the provisioner that last reset the tables and how far it got.
NoPostgres == [lock |-> {}, tables |-> [by |-> NoProvisioner, state |-> "none"]]

Init ==
    /\ FFI_STORE_COUNTER = 0
    /\ FFI_SESSION_COUNTER = 0
    /\ FFI_SCAN_COUNTER = 0
    /\ FFI_STORES = [h \in StoreHandles |-> FALSE]
    /\ FFI_SESSIONS = [s \in SessionHandles |-> FALSE]
    /\ FFI_SESSIONS_lock = NoTask
    /\ FFI_SCANS = [c \in ScanHandles |-> NoEntry]
    /\ anyStore = [h \in StoreHandles |-> NoStore]
    /\ anySession = [s \in SessionHandles |-> NoSession]
    /\ task = [t \in Tasks |-> IdleTask]
    /\ callback = NoCallback
    /\ catch_err = NoError
    /\ pass_key = NoPassKey
    /\ params = NoParams
    /\ result = NoResult
    /\ released = {}
    /\ session_update = NoUpdate
    /\ entry_set = NoEntrySet
    /\ test_db = [p \in Provisioners |-> NoTestDB]
    /\ postgres = NoPostgres

\* ---------------------------------------------------------------- helpers
\* A call runs in a free task slot.  The entry point and the first step of
\* the task it spawns are one action: the entry point touches no shared
\* state, so the spawn commutes with every step of the other tasks.
Free(t) == task[t].pc = "idle"

\* A step of the FFI layer in which no entry point refuses its call; the
\* values of keys/types.rs are not involved.
FfiStep ==
    /\ catch_err' = NoError
    /\ session_update' = NoUpdate
    /\ UNCHANGED <<typesVars, entry_set, dbVars>>

Running(op, pc, h, arg, name) ==
    [IdleTask EXCEPT !.op = op, !.pc = pc, !.h = h, !.arg = arg, !.name = name]

\* EnsureCallback::new(move |result| match result {
\*     Ok(v) => cb(cb_id, ErrorCode::Success, v),
\*     Err(err) => cb(cb_id, set_last_error(Some(err)), <the invalid handle, 0 or null>) })
\* res is what the task has to show when it ends.
CallbackOutput_partial(err, res) == res
CallbackOutput(err, res) == IF err = "Success" THEN res ELSE 0

Callback(op, h, arg, err, res, note) ==
    [op |-> op, h |-> h, arg |-> arg, err |-> err, res |-> CallbackOutput(err, res),
     note |-> note]

\* cb.resolve(result) of a task that ends in the step that started it
Return(op, h, arg, err, res, note) ==
    /\ callback' = Callback(op, h, arg, err, res, note)
    /\ UNCHANGED task

\* cb.resolve(result) of task t: everything the task held is dropped
Resolve(t, err, res, note) ==
    /\ callback' = Callback(task[t].op, task[t].h, task[t].arg, err, res, note)
    /\ task' = [task EXCEPT ![t] = IdleTask]

\* a step that does not end its task invokes no callback
Goto(t, pc) == task' = [task EXCEPT ![t].pc = pc] /\ callback' = NoCallback

\* Arc::strong_count of the store of handle h: the registry's Arc and the
\* clones the tasks hold.
StoreStrongCount(h) ==
    (IF FFI_STORES[h] THEN 1 ELSE 0) + Cardinality({t \in Tasks : task[t].store = h})

\* Arc::strong_count of the session of handle s: the registry's Arc, the one
\* inside a MutexGuardArc, and the one a closing task took out of the map.
SessionStrongCount(s) ==
    (IF FFI_SESSIONS[s] THEN 1 ELSE 0)
    + (IF anySession[s].lock # NoTask THEN 1 ELSE 0)
    + Cardinality({t \in Tasks : task[t].pc = "close_unwrap" /\ task[t].h = s})

\* What a session sees: a transaction sees its own buffered mutations over
\* the committed rows, a plain session sees the committed rows.
View(s) ==
    IF anySession[s].txn
    THEN (anyStore[anySession[s].store].rows \ anySession[s].del) \cup anySession[s].ins
    ELSE anyStore[anySession[s].store].rows

StoreUsable(h) == anyStore[h].state = "open"


storeVars == <<FFI_STORE_COUNTER, FFI_STORES, anyStore>>
sessionVars == <<FFI_SESSION_COUNTER, FFI_SESSIONS, FFI_SESSIONS_lock, anySession>>
scanVars == <<FFI_SCAN_COUNTER, FFI_SCANS>>

\* An Option is a sequence: <<>> for None, <<v>> for Some(v).
\* FfiStr::into_opt_string: None for a null pointer, Some(string) otherwise.
into_opt_string(str) == IF str = NullPtr THEN <<>> ELSE <<str>>

\* The statements of an entry point before spawn_ok, each ending in `?`:
\* the first that fails decides the error catch_err! returns.  A sequence
\* of the checks that pass (TRUE) or fail (FALSE), in source order.
FirstError(checks) ==
    IF \E i \in 1..Len(checks) : ~checks[i] THEN DefaultKind ELSE "Success"

\* catch_err! returns the error: no task is spawned, no callback is built.
Refuse_resolved(op, arg, cb, err) ==
    /\ catch_err' = [op |-> op, arg |-> arg, cb |-> cb, err |-> err]
    /\ callback' = [NoCallback EXCEPT !.op = op, !.arg = arg, !.err = err]
    /\ session_update' = NoUpdate
    /\ UNCHANGED <<task, storeVars, sessionVars, scanVars, typesVars, entry_set, dbVars>>
Refuse(op, arg, cb, err) ==
    /\ catch_err' = [op |-> op, arg |-> arg, cb |-> cb, err |-> err]
    /\ callback' = NoCallback
    /\ session_update' = NoUpdate
    /\ UNCHANGED <<task, storeVars, sessionVars, scanVars, typesVars, entry_set, dbVars>>

\* new_handle_type!(StoreHandle, FFI_STORE_COUNTER): Self::next() adds one to
\* the counter of the handle type and returns the new count.
Handle_next_same(counter) == IF counter = 0 THEN 1 ELSE counter
Handle_next(counter) == counter + 1

\* ------------------------------------------------- askar_store_provision
\* spec_uri.provision_backend(..).await?; Ok(StoreHandle::create(store).await)
\* A wrap-key method string WrapKeyMethod::parse_uri does not recognise.
BadUri == 2

\* cb.ok_or_else(..)?; spec_uri.into_opt_string().ok_or_else(..)?;
\* match wrap_key_method.as_opt_str() { Some(method) =>
\* WrapKeyMethod::parse_uri(method)?, None => WrapKeyMethod::default() }
ProvisionArgsError(cb, spec_uri, wrap_key_method) ==
    FirstError(<<cb, into_opt_string(spec_uri) # <<>>, wrap_key_method # BadUri>>)

askar_store_provision(t, spec_uri, wrap_key_method, k, cb) ==
    /\ Free(t)
    /\ LET err == ProvisionArgsError(cb, spec_uri, wrap_key_method) IN
       IF err # "Success"
       THEN Refuse("store_provision", k, cb, err)
       ELSE /\ FfiStep
            /\ \/ /\ Return("store_provision", 0, k, "Backend", 0, "")
                  /\ UNCHANGED storeVars
               \/ /\ FFI_STORE_COUNTER < MaxStores
                  /\ LET handle == Handle_next(FFI_STORE_COUNTER) IN
                     /\ FFI_STORE_COUNTER' = handle
                     /\ FFI_STORES' = [FFI_STORES EXCEPT ![handle] = TRUE]
                     /\ anyStore' = [anyStore EXCEPT ![handle] =
                                        [state |-> "open", key |-> k, rows |-> {}]]
                     /\ Return("store_provision", 0, k, "Success", handle, "")
            /\ UNCHANGED <<sessionVars, scanVars>>

\* StoreHandle::remove: FFI_STORES.lock().await.remove(self), the map
\* once the entry of the handle is out of it
StoreHandle_remove_kept(h) == FFI_STORES
StoreHandle_remove(h) == [FFI_STORES EXCEPT ![h] = FALSE]

\* StoreHandle::replace: FFI_STORES.lock().await.insert(*self, store), the
\* map once the store is in it under the handle
StoreHandle_replace_dropped(h) == FFI_STORES
StoreHandle_replace(h) == [FFI_STORES EXCEPT ![h] = TRUE]

\* ----------------------------------------------------- askar_store_rekey
\* let store = handle.remove().await?;
askar_store_rekey(t, h, k) ==
    /\ FfiStep
    /\ Free(t)
    /\ \/ /\ ~FFI_STORES[h]
          /\ Return("store_rekey", h, k, DefaultKind, 0, "invalid")
          /\ UNCHANGED FFI_STORES
       \/ /\ FFI_STORES[h]
          /\ FFI_STORES' = StoreHandle_remove(h)
          /\ task' = [task EXCEPT ![t] =
                        [Running("store_rekey", "rekey_unwrap", h, k, 0) EXCEPT !.store = h]]
          /\ callback' = NoCallback
    /\ UNCHANGED <<FFI_STORE_COUNTER, anyStore, sessionVars, scanVars>>

\* match Arc::try_unwrap(store)
RekeyTryUnwrap(t) ==
    /\ FfiStep
    /\ task[t].pc = "rekey_unwrap"
    /\ \/ /\ StoreStrongCount(task[t].h) = 1
          /\ Goto(t, "rekey_backend")
       \/ /\ StoreStrongCount(task[t].h) > 1
          /\ Goto(t, "rekey_shared")
    /\ UNCHANGED <<storeVars, sessionVars, scanVars>>

\* Ok(mut store) => store.rekey(wrap_key_method, pass_key.as_ref()).await?;
\* on Err the `?` leaves the block and the unwrapped store is dropped.
RekeyBackend(t) ==
    /\ FfiStep
    /\ task[t].pc = "rekey_backend"
    /\ LET h == task[t].h IN
       \/ /\ anyStore' = [anyStore EXCEPT ![h].key = task[t].arg]
          /\ Goto(t, "rekey_replace")
       \/ /\ anyStore' = [anyStore EXCEPT ![h].state = "closed"]
          /\ Resolve(t, "Backend", 0, "rekey_failed")
    /\ UNCHANGED <<FFI_STORE_COUNTER, FFI_STORES, sessionVars, scanVars>>

\* handle.replace(Arc::new(store)).await; Ok(())
RekeyReplace(t) ==
    /\ FfiStep
    /\ task[t].pc = "rekey_replace"
    /\ FFI_STORES' = StoreHandle_replace(task[t].h)
    /\ Resolve(t, "Success", 0, "rekeyed")
    /\ UNCHANGED <<FFI_STORE_COUNTER, anyStore, sessionVars, scanVars>>

\* Err(arc_store) => { handle.replace(arc_store).await; Err(err_msg!(..)) }
RekeyShared(t) ==
    /\ FfiStep
    /\ task[t].pc = "rekey_shared"
    /\ FFI_STORES' = StoreHandle_replace(task[t].h)
    /\ Resolve(t, DefaultKind, 0, "shared")
    /\ UNCHANGED <<FFI_STORE_COUNTER, anyStore, sessionVars, scanVars>>

\* ----------------------------------------------------- askar_store_close
\* let store = handle.remove().await?;
askar_store_close(t, h) ==
    /\ FfiStep
    /\ Free(t)
    /\ \/ /\ ~FFI_STORES[h]
          /\ Return("store_close", h, 0, DefaultKind, 0, "invalid")
          /\ UNCHANGED FFI_STORES
       \/ /\ FFI_STORES[h]
          /\ FFI_STORES' = StoreHandle_remove(h)
          /\ task' = [task EXCEPT ![t] =
                        [Running("store_close", "store_close", h, 0, 0) EXCEPT !.store = h]]
          /\ callback' = NoCallback
    /\ UNCHANGED <<FFI_STORE_COUNTER, anyStore, sessionVars, scanVars>>

\* store.arc_close().await?;
StoreCloseBackend(t) ==
    /\ FfiStep
    /\ task[t].pc = "store_close"
    /\ anyStore' = [anyStore EXCEPT ![task[t].h].state = "closed"]
    /\ \/ Resolve(t, "Success", 0, "closed")
       \/ Resolve(t, "Backend", 0, "close_failed")
    /\ UNCHANGED <<FFI_STORE_COUNTER, FFI_STORES, sessionVars, scanVars>>

\* let store = handle.load().await?;  (StoreHandle::load clones the Arc)
StoreHandle_load(t, op, pc, h, arg, category) ==
    /\ \/ /\ ~FFI_STORES[h]
          /\ Return(op, h, arg, DefaultKind, 0, "invalid")
       \/ /\ FFI_STORES[h]
          /\ task' = [task EXCEPT ![t] = [Running(op, pc, h, arg, 0) EXCEPT
                                            !.store = h, !.category = category]]
          /\ callback' = NoCallback
    /\ UNCHANGED <<storeVars, sessionVars, scanVars>>

\* ------------------------------------------------------ askar_scan_start
\* cb.ok_or_else(..)?; category.into_opt_string().ok_or_else(..)?;
\* tag_filter.as_opt_str().map(TagFilter::from_str).transpose()?
CategoryArgsError(cb, category, tag_filter) ==
    FirstError(<<cb, into_opt_string(category) # <<>>, tag_filter # BadJson>>)

\* What the backend makes of the key of an entry: an empty category or an
\* empty name is refused with Input.
EntryKeyError_accepted(category, name) == "Success"
EntryKeyError(category, name) ==
    IF category = EmptyStr \/ name = EmptyStr THEN "Input" ELSE "Success"

\* if limit < 0 { None } else { Some(limit) }
LimitOption_positive(limit) == IF limit <= 0 THEN <<>> ELSE <<limit>>
LimitOption(limit) == IF limit < 0 THEN <<>> ELSE <<limit>>

\* The number of items the backend returns out of `count` under a limit.
Limited(limit, count) ==
    IF limit = <<>> \/ limit[1] >= count THEN count ELSE limit[1]

askar_scan_start(t, h, category, tag_filter, limit, cb) ==
    /\ Free(t)
    /\ LET err == CategoryArgsError(cb, category, tag_filter) IN
       IF err # "Success"
       THEN Refuse("scan_start", limit, cb, err)
       ELSE /\ FfiStep
            /\ StoreHandle_load(t, "scan_start", "scan_create", h, limit,
                                into_opt_string(category)[1])

\* let scan = store.scan(profile, category, tag_filter, Some(offset),
\*     if limit < 0 { None } else { Some(limit) }).await?;
\* Ok(ScanHandle::create(scan).await)
\* A scan under a limit has that many of its ScanLen batches left to give.
ScanStartCreate(t) ==
    /\ FfiStep
    /\ task[t].pc = "scan_create"
    /\ \/ /\ EntryKeyError(task[t].category, 1) # "Success"
          /\ Resolve(t, EntryKeyError(task[t].category, 1), 0, "empty_key")
          /\ UNCHANGED scanVars
       \/ /\ EntryKeyError(task[t].category, 1) = "Success"
          /\ Resolve(t, "Backend", 0, "")
          /\ UNCHANGED scanVars
       \/ /\ EntryKeyError(task[t].category, 1) = "Success"
          /\ StoreUsable(task[t].store)
          /\ FFI_SCAN_COUNTER < MaxScans
          /\ LET handle == Handle_next(FFI_SCAN_COUNTER) IN
             /\ FFI_SCAN_COUNTER' = handle
             /\ FFI_SCANS' = [FFI_SCANS EXCEPT ![handle] =
                                ScanLen - Limited(LimitOption(task[t].arg), ScanLen)]
             /\ Resolve(t, "Success", handle, "")
    /\ UNCHANGED <<storeVars, sessionVars>>

\* ------------------------------------------------------- askar_scan_next
\* Option::take(): what the slot holds once its value was taken out.
Option_take_keep(slot) == slot
Option_take(slot) == InUse

\* let mut scan = handle.borrow().await?;   (ScanHandle::borrow)
askar_scan_next(t, c) ==
    /\ FfiStep
    /\ Free(t)
    /\ LET slot == FFI_SCANS[c] IN
       \/ /\ slot = NoEntry
          /\ Return("scan_next", c, 0, DefaultKind, 0, "invalid")
          /\ UNCHANGED FFI_SCANS
       \/ /\ slot = InUse
          /\ Return("scan_next", c, 0, "Busy", 0, "in_use")
          /\ UNCHANGED FFI_SCANS
       \/ /\ slot >= 0
          /\ FFI_SCANS' = [FFI_SCANS EXCEPT ![c] = Option_take(slot)]
          /\ task' = [task EXCEPT ![t] =
                        [Running("scan_next", "scan_fetch", c, 0, 0) EXCEPT !.scan = slot]]
          /\ callback' = NoCallback
    /\ UNCHANGED <<FFI_SCAN_COUNTER, storeVars, sessionVars>>

\* let entries = scan.fetch_next().await?;  On Err the `?` leaves the block
\* and the borrowed scan is dropped.  res: 1 for Some(entries), 0 for None.
ScanFetchNext(t) ==
    /\ FfiStep
    /\ task[t].pc = "scan_fetch"
    /\ \/ Resolve(t, "Backend", 0, "fetch_failed")
       \/ /\ task[t].scan < ScanLen
          /\ task' = [task EXCEPT ![t].pc = "scan_release", ![t].scan = @ + 1, ![t].res = 1]
          /\ callback' = NoCallback
       \/ /\ task[t].scan = ScanLen
          /\ task' = [task EXCEPT ![t].pc = "scan_release", ![t].res = 0]
          /\ callback' = NoCallback
    /\ UNCHANGED <<storeVars, sessionVars, scanVars>>

\* Option::replace(value): what the slot holds afterwards.
Option_replace_fresh(slot, value) == 0
Option_replace(slot, value) == value

\* Ok(Some(entries)) => cb(.., Success, EntrySetHandle::create(FfiEntrySet::from(entries)))
\* Ok(None) => cb(.., Success, EntrySetHandle::invalid())
\* entries: 1 for Some(entries), 0 for None; the handle is 0 when invalid.
ScanNextHandle_created(entries) == 1
ScanNextHandle(entries) == IF entries # 0 THEN 1 ELSE 0

\* handle.release(scan).await?; Ok(entries)   (ScanHandle::release)
ScanRelease(t) ==
    /\ FfiStep
    /\ task[t].pc = "scan_release"
    /\ LET c == task[t].h
           slot == FFI_SCANS[c] IN
       \/ /\ slot = NoEntry
          /\ Resolve(t, DefaultKind, task[t].res, "release_invalid")
          /\ UNCHANGED FFI_SCANS
       \/ /\ slot # NoEntry
          /\ FFI_SCANS' = [FFI_SCANS EXCEPT ![c] = Option_replace(slot, task[t].scan)]
          /\ Resolve(t, "Success", ScanNextHandle(task[t].res), "released")
    /\ UNCHANGED <<FFI_SCAN_COUNTER, storeVars, sessionVars>>

\* ------------------------------------------------------- askar_scan_free
\* handle.remove().await.ok();  ScanHandle::remove takes the entry out of the
\* map before it looks at what the slot held.  There is no callback: err is
\* the Result that .ok() discards.
askar_scan_free(t, c) ==
    /\ FfiStep
    /\ Free(t)
    /\ LET slot == FFI_SCANS[c] IN
       /\ FFI_SCANS' = [FFI_SCANS EXCEPT ![c] = NoEntry]
       /\ \/ /\ slot = NoEntry
             /\ Return("scan_free", c, 0, DefaultKind, 0, "invalid")
          \/ /\ slot = InUse
             /\ Return("scan_free", c, 0, "Busy", 0, "in_use")
          \/ /\ slot >= 0
             /\ Return("scan_free", c, 0, "Success", 0, "removed")
    /\ UNCHANGED <<FFI_SCAN_COUNTER, storeVars, sessionVars>>

\* --------------------------------------------------- askar_session_start
askar_session_start(t, h, as_transaction) ==
    /\ FfiStep
    /\ Free(t)
    /\ StoreHandle_load(t, "session_start", "start_create", h, as_transaction, 0)

\* let session = if as_transaction == 0 { store.session(profile).await? }
\* else { store.transaction(profile).await? };
\* Ok(SessionHandle::create(session).await)   (create locks FFI_SESSIONS)
SessionStartCreate(t) ==
    /\ FfiStep
    /\ task[t].pc = "start_create"
    /\ \/ /\ Resolve(t, "Backend", 0, "")
          /\ UNCHANGED <<FFI_SESSION_COUNTER, FFI_SESSIONS, anySession>>
       \/ /\ StoreUsable(task[t].store)
          /\ FFI_SESSIONS_lock = NoTask
          /\ FFI_SESSION_COUNTER < MaxSessions
          /\ LET handle == Handle_next(FFI_SESSION_COUNTER) IN
             /\ FFI_SESSION_COUNTER' = handle
             /\ FFI_SESSIONS' = [FFI_SESSIONS EXCEPT ![handle] = TRUE]
             /\ anySession' = [anySession EXCEPT ![handle] =
                                 [NoSession EXCEPT !.state = "open", !.store = task[t].store,
                                                   !.txn = (task[t].arg # 0)]]
             /\ Resolve(t, "Success", handle, "")
    /\ UNCHANGED <<FFI_SESSIONS_lock, storeVars, scanVars>>

\* ------------------------------- askar_session_count / update / remove_all
\* Mutex::lock_arc: the session's mutex can be taken when nobody holds it.
Mutex_unlocked_always(s) == TRUE
Mutex_unlocked(s) == anySession[s].lock = NoTask

\* let mut session = handle.load().await?;   (SessionHandle::load)
\* lock FFI_SESSIONS, look the handle up, lock_arc the session.  The
\* FFI_SESSIONS guard is a temporary of the expression that is awaited, so it
\* is held until lock_arc has returned.
SessionHandle_load(t, op, s, arg, category, name, captured) ==
    /\ FFI_SESSIONS_lock = NoTask
    /\ \/ /\ ~FFI_SESSIONS[s]
          /\ Return(op, s, arg, DefaultKind, 0, "invalid")
          /\ UNCHANGED <<FFI_SESSIONS_lock, anySession>>
       \/ /\ FFI_SESSIONS[s]
          /\ Mutex_unlocked(s)
          /\ anySession' = [anySession EXCEPT ![s].lock = t]
          /\ task' = [task EXCEPT ![t] =
                        [Running(op, "session_run", s, arg, name) EXCEPT
                           !.category = category, !.value = captured.value,
                           !.expiry_ms = captured.expiry_ms,
                           !.recipient_vks = captured.recipient_vks]]
          /\ callback' = NoCallback
          /\ UNCHANGED FFI_SESSIONS_lock
       \/ /\ FFI_SESSIONS[s]
          /\ ~Mutex_unlocked(s)
          /\ FFI_SESSIONS_lock' = t
          /\ task' = [task EXCEPT ![t] =
                        [Running(op, "session_wait", s, arg, name) EXCEPT
                           !.category = category, !.value = captured.value,
                           !.expiry_ms = captured.expiry_ms,
                           !.recipient_vks = captured.recipient_vks]]
          /\ callback' = NoCallback
          /\ UNCHANGED anySession
    /\ UNCHANGED <<FFI_SESSION_COUNTER, FFI_SESSIONS, storeVars, scanVars>>

\* match operation { 0 => Insert, 1 => Replace, 2 => Remove, _ => return Err }
EntryOperation_shifted(operation) ==
    IF operation = 1 THEN <<"Insert">>
    ELSE IF operation = 2 THEN <<"Replace">>
    ELSE IF operation = 3 THEN <<"Remove">>
    ELSE <<>>
EntryOperation(operation) ==
    IF operation = 0 THEN <<"Insert">>
    ELSE IF operation = 1 THEN <<"Replace">>
    ELSE IF operation = 2 THEN <<"Remove">>
    ELSE <<>>

askar_session_count(t, s, category, tag_filter, cb) ==
    /\ Free(t)
    /\ LET err == CategoryArgsError(cb, category, tag_filter) IN
       IF err # "Success"
       THEN Refuse("session_count", 0, cb, err)
       ELSE /\ FfiStep
            /\ SessionHandle_load(t, "session_count", s, 0, into_opt_string(category)[1], 0,
                                  NoCapture)

\* cb.ok_or_else(..)?; match operation {..}; category and name
\* .into_opt_string().ok_or_else(..)?; serde_json::from_str(tags)?
UpdateArgsError(cb, operation, category, name, tags) ==
    FirstError(<<cb, EntryOperation(operation) # <<>>, into_opt_string(category) # <<>>,
                 into_opt_string(name) # <<>>, tags # BadJson>>)

\* let value = value.as_slice().to_vec();  A ByteBuffer that is null or of
\* length 0 gives the empty slice.
ByteBuffer_to_vec(value) == IF value \in {NullPtr, EmptyStr} THEN <<>> ELSE <<value>>

\* let expiry_ms = if expiry_ms < 0 { None } else { Some(expiry_ms) };
ExpiryOption_positive(expiry_ms) == IF expiry_ms <= 0 THEN <<>> ELSE <<expiry_ms>>
ExpiryOption(expiry_ms) == IF expiry_ms < 0 THEN <<>> ELSE <<expiry_ms>>

askar_session_update(t, s, operation, category, name, value, tags, expiry_ms, cb) ==
    /\ Free(t)
    /\ LET err == UpdateArgsError(cb, operation, category, name, tags) IN
       IF err # "Success"
       THEN Refuse("session_update", operation, cb, err)
       ELSE /\ FfiStep
            /\ SessionHandle_load(t, "session_update", s, operation,
                                  into_opt_string(category)[1], into_opt_string(name)[1],
                                  [NoCapture EXCEPT !.value = ByteBuffer_to_vec(value),
                                                    !.expiry_ms = ExpiryOption(expiry_ms)])

\* let limit = if limit < 0 { None } else { Some(limit) };
askar_session_fetch_all(t, s, category, tag_filter, limit, cb) ==
    /\ Free(t)
    /\ LET err == CategoryArgsError(cb, category, tag_filter) IN
       IF err # "Success"
       THEN Refuse("session_fetch_all", limit, cb, err)
       ELSE /\ FfiStep
            /\ SessionHandle_load(t, "session_fetch_all", s, limit,
                                  into_opt_string(category)[1], 0, NoCapture)

askar_session_remove_all(t, s, category, tag_filter, cb) ==
    /\ Free(t)
    /\ LET err == CategoryArgsError(cb, category, tag_filter) IN
       IF err # "Success"
       THEN Refuse("session_remove_all", 0, cb, err)
       ELSE /\ FfiStep
            /\ SessionHandle_load(t, "session_remove_all", s, 0, into_opt_string(category)[1], 0,
                                  NoCapture)

\* the pending lock_arc(..).await returns once the session's mutex is free
SessionWait(t) ==
    /\ FfiStep
    /\ task[t].pc = "session_wait"
    /\ Mutex_unlocked(task[t].h)
    /\ anySession' = [anySession EXCEPT ![task[t].h].lock = t]
    /\ FFI_SESSIONS_lock' = NoTask
    /\ Goto(t, "session_run")
    /\ UNCHANGED <<FFI_SESSION_COUNTER, FFI_SESSIONS, storeVars, scanVars>>

\* Dropping the MutexGuardArc unlocks the session and gives up the guard's
\* Arc; the session itself is dropped (a transaction is rolled back) when
\* that was the only Arc left.
GuardDropped(s, sess) ==
    IF SessionStrongCount(s) = 1
    THEN [sess EXCEPT !.lock = NoTask, !.state = "dropped"]
    ELSE [sess EXCEPT !.lock = NoTask]

\* session.count(&category, tag_filter).await
SessionCount(t) ==
    /\ FfiStep
    /\ task[t].pc = "session_run"
    /\ task[t].op = "session_count"
    /\ LET s == task[t].h IN
       /\ anySession' = [anySession EXCEPT ![s] = GuardDropped(s, @)]
       /\ IF EntryKeyError(task[t].category, 1) # "Success"
          THEN Resolve(t, EntryKeyError(task[t].category, 1), 0, "empty_key")
          ELSE IF StoreUsable(anySession[s].store)
          THEN Resolve(t, "Success", Cardinality(View(s)), "")
          ELSE Resolve(t, "Backend", 0, "")
    /\ UNCHANGED <<FFI_SESSION_COUNTER, FFI_SESSIONS, FFI_SESSIONS_lock, storeVars, scanVars>>

\* session.fetch_all(&category, tag_filter, limit, for_update != 0).await
\* res: the number of rows in the entry set the callback is given.
SessionFetchAll(t) ==
    /\ FfiStep
    /\ task[t].pc = "session_run"
    /\ task[t].op = "session_fetch_all"
    /\ LET s == task[t].h IN
       /\ anySession' = [anySession EXCEPT ![s] = GuardDropped(s, @)]
       /\ IF EntryKeyError(task[t].category, 1) # "Success"
          THEN Resolve(t, EntryKeyError(task[t].category, 1), 0, "empty_key")
          ELSE IF StoreUsable(anySession[s].store)
          THEN Resolve(t, "Success",
                       Limited(LimitOption(task[t].arg), Cardinality(View(s))), "")
          ELSE Resolve(t, "Backend", 0, "")
    /\ UNCHANGED <<FFI_SESSION_COUNTER, FFI_SESSIONS, FFI_SESSIONS_lock, storeVars, scanVars>>

\* The outcome of update(operation, name): Insert fails with Duplicate on a
\* row that exists, Replace is insert-or-update, Remove fails with NotFound
\* on a row that does not exist.
UpdateError(s, operation, category, name) ==
    IF EntryKeyError(category, name) # "Success" THEN EntryKeyError(category, name)
    ELSE IF ~StoreUsable(anySession[s].store) THEN "Backend"
    ELSE IF operation = "Insert" /\ name \in View(s) THEN "Duplicate"
    ELSE IF operation = "Remove" /\ name \notin View(s) THEN "NotFound"
    ELSE "Success"

\* A mutation that removes the rows `gone` and adds the rows `added`: a
\* transaction buffers it, a plain session commits it at once.  The guard is
\* dropped when the operation is over.
Mutate(s, gone, added) ==
    LET sess == anySession[s] IN
    IF sess.txn
    THEN /\ anySession' = [anySession EXCEPT ![s] =
                             GuardDropped(s, [sess EXCEPT !.ins = (@ \ gone) \cup added,
                                                          !.del = (@ \cup gone) \ added])]
         /\ UNCHANGED anyStore
    ELSE /\ anySession' = [anySession EXCEPT ![s] = GuardDropped(s, sess)]
         /\ anyStore' = [anyStore EXCEPT ![sess.store].rows = (@ \ gone) \cup added]

\* Some(value.as_slice()): the value argument of session.update
Some_slice(value) == <<value>>

\* session.update(operation, &category, &name, Some(value.as_slice()),
\*                tags.as_ref().map(Vec::as_slice), expiry_ms).await?
\* (the task keeps the operation code; the EntryOperation it stands for is
\* the one the entry point matched)
SessionUpdate(t) ==
    /\ task[t].pc = "session_run"
    /\ task[t].op = "session_update"
    /\ catch_err' = NoError
    /\ UNCHANGED <<typesVars, entry_set, dbVars>>
    /\ session_update' = [operation |-> EntryOperation(task[t].arg)[1],
                          value |-> Some_slice(task[t].value),
                          expiry_ms |-> task[t].expiry_ms]
    /\ LET s == task[t].h
           operation == EntryOperation(task[t].arg)[1]
           err == UpdateError(s, operation, task[t].category, task[t].name) IN
       /\ IF err = "Success"
          THEN IF operation = "Remove"
               THEN Mutate(s, {task[t].name}, {})
               ELSE Mutate(s, {}, {task[t].name})
          ELSE Mutate(s, {}, {})
       /\ Resolve(t, err, 0, IF EntryKeyError(task[t].category, task[t].name) # "Success"
                              THEN "empty_key" ELSE "")
    /\ UNCHANGED <<FFI_STORE_COUNTER, FFI_STORES, FFI_SESSION_COUNTER, FFI_SESSIONS,
                   FFI_SESSIONS_lock, scanVars>>

\* session.remove_all(&category, tag_filter).await
SessionRemoveAll(t) ==
    /\ FfiStep
    /\ task[t].pc = "session_run"
    /\ task[t].op = "session_remove_all"
    /\ LET s == task[t].h IN
       IF EntryKeyError(task[t].category, 1) # "Success"
       THEN /\ Mutate(s, {}, {})
            /\ Resolve(t, EntryKeyError(task[t].category, 1), 0, "empty_key")
       ELSE IF StoreUsable(anySession[s].store)
       THEN /\ Mutate(s, View(s), {})
            /\ Resolve(t, "Success", Cardinality(View(s)), "")
       ELSE /\ Mutate(s, {}, {})
            /\ Resolve(t, "Backend", 0, "")
    /\ UNCHANGED <<FFI_STORE_COUNTER, FFI_STORES, FFI_SESSION_COUNTER, FFI_SESSIONS,
                   FFI_SESSIONS_lock, scanVars>>

\* --------------------------------------------------- askar_session_close
\* let session = handle.remove().await?;   (SessionHandle::remove)
askar_session_close(t, s, commit) ==
    /\ FfiStep
    /\ Free(t)
    /\ FFI_SESSIONS_lock = NoTask
    /\ \/ /\ ~FFI_SESSIONS[s]
          /\ Return("session_close", s, commit, DefaultKind, 0, "invalid")
          /\ UNCHANGED FFI_SESSIONS
       \/ /\ FFI_SESSIONS[s]
          /\ FFI_SESSIONS' = [FFI_SESSIONS EXCEPT ![s] = FALSE]
          /\ task' = [task EXCEPT ![t] = Running("session_close", "close_unwrap", s, commit, 0)]
          /\ callback' = NoCallback
    /\ UNCHANGED <<FFI_SESSION_COUNTER, FFI_SESSIONS_lock, anySession, storeVars, scanVars>>

\* if commit == 0 { /* rollback is automatic */ } else { ..commit().await?; }
CommitRequested_always(commit) == TRUE
CommitRequested(commit) == commit # 0

\* if let Ok(session) = Arc::try_unwrap(session) { .. } else { Err(err_msg!(..)) }
SessionCloseUnwrap(t) ==
    /\ FfiStep
    /\ task[t].pc = "close_unwrap"
    /\ LET s == task[t].h
           sess == anySession[s]
           gone == [sess EXCEPT !.state = "dropped"] IN
       \/ /\ SessionStrongCount(s) = 1
          /\ ~CommitRequested(task[t].arg)
          /\ anySession' = [anySession EXCEPT ![s] = gone]
          /\ Resolve(t, "Success", 0, "exclusive")
          /\ UNCHANGED anyStore
       \/ /\ SessionStrongCount(s) = 1
          /\ CommitRequested(task[t].arg)
          /\ StoreUsable(sess.store)
          /\ anyStore' = [anyStore EXCEPT ![sess.store].rows = View(s)]
          /\ anySession' = [anySession EXCEPT ![s] =
                              [sess EXCEPT !.state = "committed", !.ins = {}, !.del = {}]]
          /\ Resolve(t, "Success", 0, "exclusive")
       \/ /\ SessionStrongCount(s) = 1
          /\ CommitRequested(task[t].arg)
          /\ anySession' = [anySession EXCEPT ![s] = gone]
          /\ Resolve(t, "Backend", 0, "commit_failed")
          /\ UNCHANGED anyStore
       \/ /\ SessionStrongCount(s) > 1
          /\ Resolve(t, DefaultKind, 0, "shared")
          /\ UNCHANGED <<anyStore, anySession>>
    /\ UNCHANGED <<FFI_STORE_COUNTER, FFI_STORES, FFI_SESSION_COUNTER, FFI_SESSIONS,
                   FFI_SESSIONS_lock, scanVars>>

\* ------------------------------------------------------------------- Next
StoreCalls(t, keys) ==
    \/ \E k \in keys : askar_store_provision(t, 1, NullPtr, k, TRUE)
    \/ \E h \in StoreHandles : askar_store_close(t, h)
    \/ StoreCloseBackend(t)

RekeyCalls(t) ==
    \/ \E h \in StoreHandles, k \in PassKeys : askar_store_rekey(t, h, k)
    \/ RekeyTryUnwrap(t)
    \/ RekeyBackend(t)
    \/ RekeyReplace(t)
    \/ RekeyShared(t)

ScanCalls(t) ==
    \/ \E h \in StoreHandles : askar_scan_start(t, h, 1, NullPtr, -1, TRUE)
    \/ ScanStartCreate(t)
    \/ \E c \in ScanHandles : askar_scan_next(t, c)
    \/ ScanFetchNext(t)
    \/ ScanRelease(t)
    \/ \E c \in ScanHandles : askar_scan_free(t, c)

SessionStartCalls(t) ==
    \/ \E h \in StoreHandles, f \in Flags : askar_session_start(t, h, f)
    \/ SessionStartCreate(t)

\* Session operations called with a callback, a category and well-formed
\* JSON.
SessionCalls(t) ==
    \/ \E s \in SessionHandles : askar_session_count(t, s, 1, NullPtr, TRUE)
    \/ \E s \in SessionHandles, o \in Operations, n \in Names :
           askar_session_update(t, s, o, 1, n, 1, NullPtr, -1, TRUE)
    \/ \E s \in SessionHandles : askar_session_remove_all(t, s, 1, NullPtr, TRUE)
    \/ SessionWait(t)
    \/ SessionCount(t)
    \/ SessionUpdate(t)
    \/ SessionRemoveAll(t)
    \/ \E s \in SessionHandles, f \in Flags : askar_session_close(t, s, f)
    \/ SessionCloseUnwrap(t)

\* The whole FFI layer.
Next ==
    \E t \in Tasks :
        StoreCalls(t, PassKeys) \/ RekeyCalls(t) \/ ScanCalls(t) \/ SessionStartCalls(t) \/ SessionCalls(t)
Spec == Init /\ [][Next]_vars

\* Callers that use stores and scans only, with one pass key: FFI_SESSIONS
\* is never touched.
NextScan == \E t \in Tasks : StoreCalls(t, {1}) \/ ScanCalls(t)
SpecScan == Init /\ [][NextScan]_vars

\* Callers that use stores and sessions, with one pass key, and never re-key
\* or scan.
NextSession ==
    \E t \in Tasks : StoreCalls(t, {1}) \/ SessionStartCalls(t) \/ SessionCalls(t)
SpecSession == Init /\ [][NextSession]_vars

\* Callers that open, re-key and close stores and start and close sessions.
NextRekey ==
    \E t \in Tasks :
        \/ StoreCalls(t, PassKeys) \/ RekeyCalls(t) \/ SessionStartCalls(t)
        \/ \E s \in SessionHandles, f \in Flags : askar_session_close(t, s, f)
        \/ SessionCloseUnwrap(t)
SpecRekey == Init /\ [][NextRekey]_vars

\* A caller that creates and removes handles of the three registries, one
\* call at a time.
NextHandles ==
    \E t \in {1} :
        \/ StoreCalls(t, {1})
        \/ SessionStartCalls(t)
        \/ \E s \in SessionHandles, f \in Flags : askar_session_close(t, s, f)
        \/ SessionCloseUnwrap(t)
        \/ \E h \in StoreHandles : askar_scan_start(t, h, 1, NullPtr, -1, TRUE)
        \/ ScanStartCreate(t)
        \/ \E c \in ScanHandles : askar_scan_free(t, c)
SpecHandles == Init /\ [][NextHandles]_vars

\* A caller that passes every kind of argument to the operations of one
\* store's sessions: missing callbacks, null and empty strings, malformed JSON and
\* operation codes outside 0..2.
SessionArgCalls(t) ==
    \/ \E s \in SessionHandles, c \in FfiStrs, f \in JsonStrs, cb \in BOOLEAN :
           askar_session_count(t, s, c, f, cb)
    \/ \E s \in SessionHandles, o \in OperationCodes, c \in FfiStrs, n \in FfiStrs,
           j \in JsonStrs, cb \in BOOLEAN :
           askar_session_update(t, s, o, c, n, 1, j, -1, cb)
    \/ \E s \in SessionHandles, c \in FfiStrs, f \in JsonStrs, cb \in BOOLEAN :
           askar_session_remove_all(t, s, c, f, cb)
    \/ \E s \in SessionHandles, c \in FfiStrs, f \in JsonStrs, l \in Limits, cb \in BOOLEAN :
           askar_session_fetch_all(t, s, c, f, l, cb)
    \/ \E h \in StoreHandles, c \in FfiStrs, f \in JsonStrs, cb \in BOOLEAN :
           askar_scan_start(t, h, c, f, -1, cb)
    \/ ScanStartCreate(t)
    \/ SessionCount(t)
    \/ SessionFetchAll(t)
    \/ SessionUpdate(t)
    \/ SessionRemoveAll(t)

\* One call at a time: the session is never locked when a call arrives.
NextArgs ==
    \E t \in {1} :
        \/ \E u \in {NullPtr, 1}, m \in {NullPtr, BadUri}, cb \in BOOLEAN :
               askar_store_provision(t, u, m, 1, cb)
        \/ SessionStartCalls(t)
        \/ SessionArgCalls(t)
SpecArgs == Init /\ [][NextArgs]_vars

\* A caller that passes every kind of argument to askar_scan_start and
\* reads the scans it gets.
NextScanArgs ==
    \E t \in {1} :
        \/ askar_store_provision(t, 1, NullPtr, 1, TRUE)
        \/ \E h \in StoreHandles, c \in FfiStrs, f \in JsonStrs, l \in Limits, cb \in BOOLEAN :
               askar_scan_start(t, h, c, f, l, cb)
        \/ ScanStartCreate(t)
        \/ \E c \in ScanHandles : askar_scan_next(t, c)
        \/ ScanFetchNext(t)
        \/ ScanRelease(t)
SpecScanArgs == Init /\ [][NextScanArgs]_vars

\* A caller that fills a store and reads it back under every limit, with
\* askar_session_fetch_all and with askar_scan_start.
NextLimit ==
    \E t \in {1} :
        \/ askar_store_provision(t, 1, NullPtr, 1, TRUE)
        \/ SessionStartCalls(t)
        \/ \E s \in SessionHandles, o \in Operations, n \in Names :
               askar_session_update(t, s, o, 1, n, 1, 1, -1, TRUE)
        \/ SessionUpdate(t)
        \/ \E s \in SessionHandles, l \in Limits : askar_session_fetch_all(t, s, 1, 1, l, TRUE)
        \/ SessionFetchAll(t)
        \/ \E h \in StoreHandles, l \in Limits : askar_scan_start(t, h, 1, 1, l, TRUE)
        \/ ScanStartCreate(t)
SpecLimit == Init /\ [][NextLimit]_vars

\* A caller that updates entries with every operation, value buffer and
\* expiry.
NextExpiry ==
    \E t \in {1} :
        \/ askar_store_provision(t, 1, NullPtr, 1, TRUE)
        \/ SessionStartCalls(t)
        \/ \E s \in SessionHandles, o \in Operations, n \in Names, v \in Buffers, e \in ExpiryMs :
               askar_session_update(t, s, o, 1, n, v, NullPtr, e, TRUE)
        \/ SessionUpdate(t)
SpecExpiry == Init /\ [][NextExpiry]_vars

\* --------------------------------------------- askar_session_pack_message
\* The recipient_vks argument: a null pointer or a string, written as the
\* sequence of its characters.
RecipientChars == {",", "a"}
RecipientStrs == UNION {[1..n -> RecipientChars] : n \in 0..MaxRecipientLen}
RecipientArgs ==
    {[null |-> TRUE, str |-> <<>>]} \cup {[null |-> FALSE, str |-> r] : r \in RecipientStrs}

\* recipient_vks.as_opt_str()
FfiStr_as_opt_str(ffi) == IF ffi.null THEN <<>> ELSE <<ffi.str>>

\* recips.find(","): the position of the first comma, counted from 0
str_find(recips) ==
    IF \E i \in 1..Len(recips) : recips[i] = ","
    THEN <<(CHOOSE i \in 1..Len(recips) :
               recips[i] = "," /\ \A j \in 1..(i - 1) : recips[j] # ",") - 1>>
    ELSE <<>>

\* if !recips.is_empty() { recipient_vks.push(recips.to_string()); }
PushLast_always(recipient_vks, recips) == Append(recipient_vks, recips)
PushLast(recipient_vks, recips) ==
    IF recips # <<>> THEN Append(recipient_vks, recips) ELSE recipient_vks

\* loop {
\*     if let Some(pos) = recips.find(",") {
\*         recipient_vks.push((&recips[..pos]).to_string());
\*         recips = &recips[(pos+1)..];
\*     } else { if !recips.is_empty() { recipient_vks.push(recips.to_string()); } break; }
\* }
RECURSIVE ParseRecipients(_, _)
ParseRecipients(recipient_vks, recips) ==
    LET pos == str_find(recips) IN
    IF pos # <<>>
    THEN ParseRecipients(Append(recipient_vks, SubSeq(recips, 1, pos[1])),
                         SubSeq(recips, pos[1] + 2, Len(recips)))
    ELSE PushLast(recipient_vks, recips)

\* cb.ok_or_else(..)?; recipient_vks.as_opt_str().ok_or_else(..)?
PackArgsError(cb, recipient_vks) ==
    FirstError(<<cb, FfiStr_as_opt_str(recipient_vks) # <<>> >>)

askar_session_pack_message(t, s, recipient_vks, cb) ==
    /\ Free(t)
    /\ LET err == PackArgsError(cb, recipient_vks) IN
       IF err # "Success"
       THEN Refuse("session_pack_message", 0, cb, err)
       ELSE /\ FfiStep
            /\ SessionHandle_load(t, "session_pack_message", s, 0, 0, 0,
                                  [NoCapture EXCEPT !.recipient_vks =
                                      ParseRecipients(<<>>, FfiStr_as_opt_str(recipient_vks)[1])])

\* The outcomes of Session::pack_message: Input when there is no
\* recipient; otherwise the message is packed, or a key is not usable, is
\* not found or cannot be read.
PackError(s, recipient_vks) ==
    IF recipient_vks = <<>> THEN {"Input"}
    ELSE IF ~StoreUsable(anySession[s].store) THEN {"Backend"}
    ELSE {"Success", "Input", "NotFound"}

\* session.pack_message(recipient_vks.iter().map(String::as_str), .., &message).await?
SessionPackMessage(t) ==
    /\ FfiStep
    /\ task[t].pc = "session_run"
    /\ task[t].op = "session_pack_message"
    /\ LET s == task[t].h IN
       /\ anySession' = [anySession EXCEPT ![s] = GuardDropped(s, @)]
       /\ \E err \in PackError(s, task[t].recipient_vks) :
             Resolve(t, err, 1, IF task[t].recipient_vks = <<>> THEN "no_recipients" ELSE "")
    /\ UNCHANGED <<FFI_SESSION_COUNTER, FFI_SESSIONS, FFI_SESSIONS_lock, storeVars, scanVars>>

\* A caller that packs messages for every recipient string.
NextPack ==
    \E t \in {1} :
        \/ askar_store_provision(t, 1, NullPtr, 1, TRUE)
        \/ SessionStartCalls(t)
        \/ \E s \in SessionHandles, r \in RecipientArgs, cb \in BOOLEAN :
               askar_session_pack_message(t, s, r, cb)
        \/ SessionPackMessage(t)
SpecPack == Init /\ [][NextPack]_vars

\* ========================================================= keys/types.rs
\* ---------------------------------------------------------------- PassKey
\* pub struct PassKey<'a>(Option<Cow<'a, str>>): some is FALSE for None;
\* owned tells Cow::Owned from Cow::Borrowed; str is the string held.
Strs == {"", "a", "b"}
PassKey(opt, owned) ==
    IF opt = <<>> THEN NoPassKey ELSE [some |-> TRUE, owned |-> owned, str |-> opt[1]]
PassKeyValues ==
    {PassKey(<<>>, FALSE)} \cup {PassKey(<<str>>, owned) : str \in Strs, owned \in BOOLEAN}

\* impl Deref for PassKey: None => "", Some(s) => s.as_ref()
PassKey_deref(p) == IF p.some THEN p.str ELSE ""

\* PassKey(Some(Cow::Borrowed(&**self)))
PassKey_as_ref(p) == PassKey(<<PassKey_deref(p)>>, FALSE)

\* self.0.is_none()
PassKey_is_none(p) == ~p.some

\* None => None, Some(Cow::Borrowed(s)) => Some(Cow::Owned(s.to_string())),
\* Some(Cow::Owned(s)) => Some(Cow::Owned(s))
PassKey_into_owned(p) == IF p.some THEN PassKey(<<p.str>>, TRUE) ELSE PassKey(<<>>, FALSE)

\* #[derive(Clone)]: Option<Cow<str>>::clone keeps None, Borrowed and Owned
PassKey_clone(p) == IF p.some THEN PassKey(<<p.str>>, p.owned) ELSE PassKey(<<>>, FALSE)

\* impl PartialEq: &**self == &**other
PassKey_eq(p, other) == PassKey_deref(p) = PassKey_deref(other)

\* self.0.take(): what the PassKey holds once its value was taken out
PassKey_take_keep(p) == p
PassKey_take(p) == PassKey(<<>>, FALSE)

\* The bytes of a string, and String::zeroize: every byte overwritten with 0
StrBytes(str) == CASE str = "" -> <<>> [] str = "a" -> <<97>> [] str = "b" -> <<98>>
String_zeroize(bytes) == [i \in DOMAIN bytes |-> 0]

\* The string buffer a PassKey owns, as a record of what it holds when the
\* allocator gets it back and of who gave it up.
OwnedBuffer(p, scrubbed, by) ==
    IF p.some /\ p.owned
    THEN {[bytes |-> IF scrubbed THEN String_zeroize(StrBytes(p.str)) ELSE StrBytes(p.str),
           by |-> by]}
    ELSE {}

\* From<&str>, From<String>, From<Option<&str>>
PassKey_from(opt, owned) ==
    /\ PassKey_is_none(pass_key)
    /\ pass_key' = PassKey(opt, owned)
    /\ UNCHANGED <<ffiVars, catch_err, entry_set, dbVars, params, result, released>>

\* clone or as_ref on the PassKey under test.  result: fn, the operation;
\* of, the PassKey it was applied to; val, what it gave.
PassKey_convert(fn) ==
    /\ result' = [fn |-> fn, of |-> pass_key, other |-> NoPassKey,
                  val |-> CASE fn = "clone" -> PassKey_clone(pass_key)
                            [] fn = "as_ref" -> PassKey_as_ref(pass_key)]
    /\ UNCHANGED <<ffiVars, catch_err, entry_set, dbVars, pass_key, params, released>>

\* into_owned(self): self is wrapped in ManuallyDrop and its value taken
\* out, so what take() leaves in it is never dropped: a string it still
\* owned would stay in memory as it is.
PassKey_into_owned_call ==
    /\ result' = [fn |-> "into_owned", of |-> pass_key, other |-> NoPassKey,
                  val |-> PassKey_into_owned(pass_key)]
    /\ pass_key' = PassKey_take(pass_key)
    /\ released' = released \cup OwnedBuffer(pass_key', FALSE, "ManuallyDrop")
    /\ UNCHANGED <<ffiVars, catch_err, entry_set, dbVars, params>>

\* pass_key == other
PassKey_compare(other) ==
    /\ result' = [fn |-> "eq", of |-> pass_key, other |-> other,
                  val |-> PassKey_eq(pass_key, other)]
    /\ UNCHANGED <<ffiVars, catch_err, entry_set, dbVars, pass_key, params, released>>

\* impl Zeroize for PassKey: match self.0.take() { Some(Cow::Owned(mut s)) =>
\* s.zeroize(), _ => () }: an owned string is overwritten and then freed.
PassKey_zeroize ==
    /\ pass_key' = PassKey_take(pass_key)
    /\ released' = released \cup OwnedBuffer(pass_key, TRUE, "PassKey::zeroize")
    /\ result' = [fn |-> "zeroize", of |-> pass_key, other |-> NoPassKey, val |-> pass_key']
    /\ UNCHANGED <<ffiVars, catch_err, entry_set, dbVars, params>>

\* impl Drop for PassKey: self.zeroize(), then the field is dropped: a
\* string it still owned would be freed as it is.
PassKey_drop ==
    /\ pass_key' = NoPassKey
    /\ released' = released \cup OwnedBuffer(pass_key, TRUE, "PassKey::zeroize")
                            \cup OwnedBuffer(PassKey_take(pass_key), FALSE, "Cow::drop")
    /\ result' = [fn |-> "drop", of |-> pass_key, other |-> NoPassKey,
                  val |-> PassKey_take(pass_key)]
    /\ UNCHANGED <<ffiVars, catch_err, entry_set, dbVars, params>>

NextPassKey ==
    \/ PassKey_zeroize
    \/ PassKey_drop
    \/ PassKey_into_owned_call
    \/ \E opt \in {<<>>} \cup {<<str>> : str \in Strs}, owned \in BOOLEAN : PassKey_from(opt, owned)
    \/ \E fn \in {"clone", "as_ref"} : PassKey_convert(fn)
    \/ \E other \in PassKeyValues : PassKey_compare(other)
SpecPassKey == Init /\ [][NextPassKey]_vars

\* -------------------------------------------------------------- KeyParams
\* pub enum KeyAlg { ED25519, Other(String) }
ED25519 == [variant |-> "ED25519", other |-> ""]
Other(str) == [variant |-> "Other", other |-> str]
KeyAlgs == {ED25519, Other("ed25519"), Other("x25519")}

\* KeyAlg::as_str
KeyAlg_as_str(alg) == IF alg.variant = "ED25519" THEN "ed25519" ELSE alg.other

\* impl FromStr for KeyAlg
KeyAlg_from_str(s) == IF s = "ed25519" THEN ED25519 ELSE Other(s)

\* Byte strings of the key material, and the optional fields of KeyParams.
KeyBytes == {<<1, 2>>, <<3>>}
OptStrings == {<<>>, <<"m">>}
OptBytes == {<<>>} \cup {<<b>> : b \in KeyBytes}
KeyParamsValues ==
    [alg : KeyAlgs, metadata : OptStrings, reference : OptStrings,
     pub_key : {<<>>, <<(<<3>>)>>}, prv_key : OptBytes]

\* serde_utils::as_base58: the text form of a byte string, and back
bs58_encode(bytes) == [bs58 |-> bytes]
bs58_decode(text) == text.bs58

\* serde_json::to_vec(self) with the serde attributes of KeyParams: alg as its
\* string (serde_as_str_impl!), a None field skipped, keys as base58.
KeyParams_to_vec(p) ==
    LET keys == {"alg"} \cup (IF p.metadata = <<>> THEN {} ELSE {"meta"})
                        \cup (IF p.reference = <<>> THEN {} ELSE {"ref"})
                        \cup (IF p.pub_key = <<>> THEN {} ELSE {"pub"})
                        \cup (IF p.prv_key = <<>> THEN {} ELSE {"prv"})
    IN  [k \in keys |-> CASE k = "alg" -> KeyAlg_as_str(p.alg)
                          [] k = "meta" -> p.metadata[1]
                          [] k = "ref" -> p.reference[1]
                          [] k = "pub" -> bs58_encode(p.pub_key[1])
                          [] k = "prv" -> bs58_encode(p.prv_key[1])]

\* serde_json::from_slice(params): alg is required, a missing optional field
\* takes its default (None); a failure is an Unexpected error.
KeyParams_from_slice(json) ==
    IF "alg" \notin DOMAIN json
    THEN [err |-> "Unexpected", params |-> NoParams]
    ELSE [err |-> "Success",
          params |-> [alg |-> KeyAlg_from_str(json["alg"]),
                      metadata |-> IF "meta" \in DOMAIN json THEN <<json["meta"]>> ELSE <<>>,
                      reference |-> IF "ref" \in DOMAIN json THEN <<json["ref"]>> ELSE <<>>,
                      pub_key |-> IF "pub" \in DOMAIN json THEN <<bs58_decode(json["pub"])>> ELSE <<>>,
                      prv_key |-> IF "prv" \in DOMAIN json THEN <<bs58_decode(json["prv"])>> ELSE <<>>]]

\* SecretBytes zeroize: every byte of the buffer is overwritten with 0
SecretBytes_zeroize(bytes) == [i \in DOMAIN bytes |-> 0]

\* impl Zeroize for KeyParams: self.prv_key.zeroize() scrubs the buffer and
\* leaves None; nothing else is touched
KeyParams_zeroize_noop(p) == p
KeyParams_zeroize(p) == [p EXCEPT !.prv_key = <<>>]

\* The prv_key buffers given back to the allocator while p becomes q under
\* zeroize: what they held when freed, and who freed them.
Scrubbed(p, q) ==
    IF p.prv_key # <<>> /\ q.prv_key = <<>>
    THEN {[bytes |-> SecretBytes_zeroize(p.prv_key[1]), by |-> "KeyParams::zeroize"]}
    ELSE {}

\* impl Drop for KeyParams: self.zeroize(), then the fields are dropped; a
\* SecretBytes still held at that point is freed by its own destructor.
KeyParams_drop(p) ==
    LET q == KeyParams_zeroize(p)
    IN  Scrubbed(p, q) \cup
        (IF q.prv_key = <<>> THEN {}
         ELSE {[bytes |-> SecretBytes_zeroize(q.prv_key[1]), by |-> "SecretBytes::drop"]})

\* A KeyParams value comes to exist (a key is created or fetched).
KeyParams_new(p) ==
    /\ params = NoParams
    /\ params' = p
    /\ UNCHANGED <<ffiVars, catch_err, entry_set, dbVars, pass_key, result, released>>

\* KeyParams::from_slice(&params.to_vec())
KeyParams_round_trip ==
    /\ params # NoParams
    /\ LET json == KeyParams_to_vec(params)
       IN  result' = [fn |-> "from_slice", of |-> params, other |-> json,
                      val |-> KeyParams_from_slice(json)]
    /\ UNCHANGED <<ffiVars, catch_err, entry_set, dbVars, pass_key, params, released>>

\* params.zeroize()
KeyParams_zeroize_call ==
    /\ params # NoParams
    /\ params' = KeyParams_zeroize(params)
    /\ released' = released \cup Scrubbed(params, params')
    /\ result' = [fn |-> "zeroize", of |-> params, other |-> NoParams, val |-> params']
    /\ UNCHANGED <<ffiVars, catch_err, entry_set, dbVars, pass_key>>

\* The KeyParams goes out of scope.
KeyParams_dropped ==
    /\ params # NoParams
    /\ released' = released \cup KeyParams_drop(params)
    /\ params' = NoParams
    /\ result' = [fn |-> "drop", of |-> params, other |-> NoParams, val |-> NoParams]
    /\ UNCHANGED <<ffiVars, catch_err, entry_set, dbVars, pass_key>>

\* KeyEntry::into_parts: the entry is wrapped in ManuallyDrop and its fields
\* are read out, so no destructor runs and the KeyParams is the caller's.
KeyEntry_into_parts ==
    /\ params # NoParams
    /\ result' = [fn |-> "into_parts", of |-> params, other |-> NoParams, val |-> params]
    /\ UNCHANGED <<ffiVars, catch_err, entry_set, dbVars, pass_key, params, released>>

\* export_key_entry: into_parts, the params serialised into the Entry value,
\* and the params dropped when the function returns.
export_key_entry ==
    /\ params # NoParams
    /\ result' = [fn |-> "export_key_entry", of |-> params, other |-> NoParams,
                  val |-> KeyParams_to_vec(params)]
    /\ released' = released \cup KeyParams_drop(params)
    /\ params' = NoParams
    /\ UNCHANGED <<ffiVars, catch_err, entry_set, dbVars, pass_key>>

\* match (&self.params.alg, &self.params.<key>) {
\*     (KeyAlg::ED25519, Some(key)) => Ok(..),
\*     (_, None) => Err(err_msg!(Input, "Undefined .. key")),
\*     _ => Err(err_msg!(Unsupported, "Unsupported key algorithm")) }
\* The arms are tried in this order.
KeyEntry_key(alg, key) ==
    IF alg = ED25519 /\ key # <<>> THEN [err |-> "Success", key |-> key]
    ELSE IF key = <<>> THEN [err |-> "Input", key |-> <<>>]
    ELSE [err |-> "Unsupported", key |-> <<>>]

\* KeyEntry::verkey
KeyEntry_verkey(p) == KeyEntry_key(p.alg, p.pub_key)

\* KeyEntry::private_key
KeyEntry_private_key(p) == KeyEntry_key(p.alg, p.prv_key)

\* entry.verkey() or entry.private_key() on the entry of the KeyParams
KeyEntry_access(fn) ==
    /\ params # NoParams
    /\ result' = [fn |-> fn, of |-> params, other |-> NoParams,
                  val |-> IF fn = "verkey" THEN KeyEntry_verkey(params)
                          ELSE KeyEntry_private_key(params)]
    /\ UNCHANGED <<ffiVars, catch_err, entry_set, dbVars, pass_key, params, released>>

NextKeyParams ==
    \/ \E fn \in {"verkey", "private_key"} : KeyEntry_access(fn)
    \/ \E p \in KeyParamsValues : KeyParams_new(p)
    \/ KeyParams_round_trip
    \/ KeyParams_zeroize_call
    \/ KeyParams_dropped
    \/ KeyEntry_into_parts
    \/ export_key_entry
SpecKeyParams == Init /\ [][NextKeyParams]_vars

\* --------------------------------------------------------------- KeyEntry
\* pub struct KeyEntry { category, ident, params, tags: Option<Vec<EntryTag>> }
\* A tag is a number; tags are compared by their order as numbers.
EntryTags == {1, 2}
TagLists == {<<>>, <<1>>, <<1, 2>>, <<2, 1>>, <<1, 1>>}
KeyEntryValues ==
    [category : {"public", "keypair"}, ident : {"k"},
     params : {[NoParams EXCEPT !.alg = ED25519], [NoParams EXCEPT !.alg = Other("x25519")]},
     tags : {<<>>} \cup {<<tags>> : tags \in TagLists}]

\* tags.sort(): the elements of the list in ascending order
RECURSIVE Vec_sort(_)
Vec_sort(seq) ==
    IF seq = <<>> THEN <<>>
    ELSE LET least == CHOOSE i \in DOMAIN seq : \A j \in DOMAIN seq : seq[i] <= seq[j]
             rest == [k \in 1..(Len(seq) - 1) |-> IF k < least THEN seq[k] ELSE seq[k + 1]]
         IN  <<seq[least]>> \o Vec_sort(rest)

\* types::sorted_tags: references to the tags in sorted order, None when
\* there is no tag
sorted_tags(tags) == IF tags = <<>> THEN <<>> ELSE <<Vec_sort(tags)>>

\* KeyEntry::sorted_tags: self.tags.as_ref().and_then(sorted_tags)
KeyEntry_sorted_tags_as_given(entry) == entry.tags
KeyEntry_sorted_tags(entry) == IF entry.tags = <<>> THEN <<>> ELSE sorted_tags(entry.tags[1])

\* impl PartialEq for KeyEntry
KeyEntry_eq(self, rhs) ==
    /\ self.category = rhs.category
    /\ self.ident = rhs.ident
    /\ self.params = rhs.params
    /\ KeyEntry_sorted_tags(self) = KeyEntry_sorted_tags(rhs)

\* A key entry comes to exist; up to three are kept, in result.of.
KeyEntry_new(entry) ==
    /\ result' = IF result.fn = "entries" /\ Len(result.of) < 3
                 THEN [result EXCEPT !.of = Append(@, entry)]
                 ELSE [fn |-> "entries", of |-> <<entry>>, other |-> NoParams, val |-> FALSE]
    /\ UNCHANGED <<ffiVars, catch_err, entry_set, dbVars, pass_key, params, released>>

\* a == b and the other comparisons among three key entries a, b, c
KeyEntry_compare ==
    /\ result.fn = "entries"
    /\ Len(result.of) = 3
    /\ LET a == result.of[1]
           b == result.of[2]
           c == result.of[3]
       IN  result' = [fn |-> "key_entry_eq", of |-> result.of, other |-> NoParams,
                      val |-> [aa |-> KeyEntry_eq(a, a), ab |-> KeyEntry_eq(a, b),
                               ba |-> KeyEntry_eq(b, a), bc |-> KeyEntry_eq(b, c),
                               ac |-> KeyEntry_eq(a, c)]]
    /\ UNCHANGED <<ffiVars, catch_err, entry_set, dbVars, pass_key, params, released>>

NextKeyEntry ==
    \/ \E entry \in KeyEntryValues : KeyEntry_new(entry)
    \/ KeyEntry_compare
SpecKeyEntry == Init /\ [][NextKeyEntry]_vars

\* ------------------------------------------------ ffi/store.rs: entry sets
\* rows: acc.extend(entries.into_iter().map(FfiEntry::new)): one FfiEntry for
\* each entry of the batch, in the order of the batch.
FfiEntry_new(entry) == [category |-> 1, name |-> entry]
EntrySetRows(n) == [i \in 1..n |-> FfiEntry_new(i)]
NoFfiEntry == [category |-> 0, name |-> 0]

\* EntrySetHandle::create(FfiEntrySet::from(entries)): pos starts at
\* AtomicUsize::default().
EntrySetHandle_create(n) ==
    /\ ~entry_set.created
    /\ entry_set' = [NoEntrySet EXCEPT !.created = TRUE, !.rows = EntrySetRows(n)]
    /\ catch_err' = NoError
    /\ callback' = NoCallback
    /\ session_update' = NoUpdate
    /\ UNCHANGED <<task, storeVars, sessionVars, scanVars, typesVars, dbVars>>

\* self.pos.fetch_add(1, Ordering::Release): one atomic step that stores the
\* sum and gives the value the position had before it.
AtomicUsize_fetch_add_lost(pos, val) == pos
AtomicUsize_fetch_add(pos, val) == pos + val

\* check_useful_c_ptr!(ptr): a null pointer is refused
check_useful_c_ptr(ptr) == ptr # NullPtr

\* askar_entry_set_next, up to the fetch_add of FfiEntrySet::next.  The calls
\* of one entry set are capped at MaxNextCalls.
askar_entry_set_next(c, entry, found) ==
    /\ entry_set.created
    /\ entry_set.next[c].pc = "idle"
    /\ LET err == FirstError(<<check_useful_c_ptr(entry), check_useful_c_ptr(found)>>) IN
       IF err # "Success"
       THEN Refuse("entry_set_next", 0, TRUE, err)
       ELSE /\ entry_set.pos < MaxNextCalls
            /\ entry_set' = [entry_set EXCEPT
                               !.pos = AtomicUsize_fetch_add(@, 1),
                               !.next[c] = [pc |-> "fetched", pos |-> entry_set.pos]]
            /\ catch_err' = NoError
            /\ callback' = NoCallback
            /\ session_update' = NoUpdate
            /\ UNCHANGED <<task, storeVars, sessionVars, scanVars, typesVars, dbVars>>

\* if pos < self.rows.len() { Some(self.rows[pos].clone()) } else { None }
FfiEntrySet_row(rows, pos) == IF pos < Len(rows) THEN <<rows[pos + 1]>> ELSE <<>>

\* if let Some(next) = results.next() { *entry = next; *found = 1 } else { *found = 0 }
EntrySetNextReturn(c) ==
    /\ entry_set.next[c].pc = "fetched"
    /\ LET pos == entry_set.next[c].pos
           next == FfiEntrySet_row(entry_set.rows, pos) IN
       entry_set' = [entry_set EXCEPT
                       !.next[c] = [pc |-> "idle", pos |-> 0],
                       !.returned = Append(@, [caller |-> c, pos |-> pos,
                                               found |-> IF next # <<>> THEN 1 ELSE 0,
                                               entry |-> IF next # <<>> THEN next[1]
                                                         ELSE NoFfiEntry])]
    /\ catch_err' = NoError
    /\ callback' = NoCallback
    /\ session_update' = NoUpdate
    /\ UNCHANGED <<task, storeVars, sessionVars, scanVars, typesVars, dbVars>>

\* Threads that share one entry set and call askar_entry_set_next on it.
NextEntrySet ==
    \/ \E n \in 0..MaxRows : EntrySetHandle_create(n)
    \/ \E c \in Callers, entry, found \in {NullPtr, 1} : askar_entry_set_next(c, entry, found)
    \/ \E c \in Callers : EntrySetNextReturn(c)
SpecEntrySet == Init /\ [][NextEntrySet]_vars

\* ------------------------------------------------------ postgres/test_db.rs
\* A step of a provisioner: the FFI layer and the values of keys/types.rs
\* are not involved.
DbStep == UNCHANGED <<ffiVars, catch_err, typesVars, entry_set>>

\* `?` on a failed database call inside provision: the function returns the
\* error, which drops what it holds; the connection that is dropped ends its
\* transaction, and with it the advisory lock it held.
ProvisionFails(p) ==
    /\ test_db' = [test_db EXCEPT ![p] = [NoTestDB EXCEPT !.err = "Backend"]]
    /\ postgres' = [postgres EXCEPT !.lock = @ \ {p}]

\* TestDB::provision, up to the lock loop: the keys, the options and
\* opts.create_db_pool().await?
TestDB_provision(p) ==
    /\ DbStep
    /\ test_db[p].pc = "none"
    /\ \/ /\ test_db' = [test_db EXCEPT ![p] = [NoTestDB EXCEPT !.pc = "lock"]]
          /\ UNCHANGED postgres
       \/ ProvisionFails(p)

\* SELECT pg_try_advisory_xact_lock(99999): true, and the lock is taken for
\* the transaction, exactly when no other transaction holds the lock.
pg_try_advisory_xact_lock_shared(holders) == TRUE
pg_try_advisory_xact_lock(holders) == holders = {}

\* What provision does with the answer of the lock query: true breaks out of
\* the loop, false goes on to close the connection and retry.
\* pc: where provision goes on; err: the error it returns, if any.
LockAnswer(locked) ==
    IF locked THEN [pc |-> "reset", err |-> ""] ELSE [pc |-> "close", err |-> ""]

\* One turn of the loop up to the query: conn_pool.acquire().await?.release(),
\* TransactionManager::begin(&mut lock_txn).await?, the lock query.  The
\* connections a provisioner may have open are capped at MaxLockTxns.
TryLock(p) ==
    /\ DbStep
    /\ test_db[p].pc = "lock"
    /\ test_db[p].lock_txn < MaxLockTxns
    /\ \/ LET locked == pg_try_advisory_xact_lock(postgres.lock)
              answer == LockAnswer(locked) IN
          /\ test_db' = [test_db EXCEPT ![p].pc = answer.pc, ![p].err = answer.err,
                                        ![p].lock_txn = IF answer.err = "" THEN @ + 1 ELSE 0]
          /\ postgres' = [postgres EXCEPT !.lock = IF locked THEN @ \cup {p} ELSE @]
       \/ ProvisionFails(p)

\* lock_txn.close(): the connection is closed
PgConnection_close_leaked(lock_txn) == lock_txn
PgConnection_close(lock_txn) == lock_txn - 1

\* lock_txn.close().await?; of a turn that did not get the lock
CloseLockTxn(p) ==
    /\ DbStep
    /\ test_db[p].pc = "close"
    /\ \/ /\ test_db' = [test_db EXCEPT ![p].pc = "sleep",
                                        ![p].lock_txn = PgConnection_close(@)]
          /\ UNCHANGED postgres
       \/ ProvisionFails(p)

\* async_std::task::sleep(Duration::from_millis(50)).await; then the next turn
Sleep(p) ==
    /\ DbStep
    /\ test_db[p].pc = "sleep"
    /\ test_db' = [test_db EXCEPT ![p].pc = "lock"]
    /\ UNCHANGED postgres

\* let mut init_txn = conn_pool.begin().await?; reset_db(&mut *init_txn).await?;
ResetDb(p) ==
    /\ DbStep
    /\ test_db[p].pc = "reset"
    /\ \/ /\ test_db' = [test_db EXCEPT ![p].pc = "init"]
          /\ postgres' = [postgres EXCEPT !.tables = [by |-> p, state |-> "reset"]]
       \/ ProvisionFails(p)

\* init_db(init_txn, ..).await?; Store::new(PostgresStore::new(conn_pool, ..));
\* Ok(TestDB { inst: Some(inst), lock_txn: Some(lock_txn) })
InitDb(p) ==
    /\ DbStep
    /\ test_db[p].pc = "init"
    /\ \/ /\ test_db' = [test_db EXCEPT ![p].pc = "ready", ![p].inst = TRUE]
          /\ postgres' = [postgres EXCEPT !.tables = [by |-> p, state |-> "init"]]
       \/ ProvisionFails(p)

\* impl Drop for TestDB, first statement:
\* if let Some(lock_txn) = self.lock_txn.take() { block_on(lock_txn.close()).expect(..) }
\* The transaction of the connection ends, which releases the advisory lock.
DropLockTxn(p) ==
    /\ DbStep
    /\ test_db[p].pc = "ready"
    /\ test_db' = [test_db EXCEPT ![p].pc = "drop_inst",
                                  ![p].lock_txn = PgConnection_close(@)]
    /\ postgres' = [postgres EXCEPT !.lock = @ \ {p}]

\* impl Drop for TestDB, second statement:
\* if let Some(inst) = self.inst.take() { block_on(timeout(30 s, inst.close())).expect(..).expect(..) }
DropInst(p) ==
    /\ DbStep
    /\ test_db[p].pc = "drop_inst"
    /\ test_db' = [test_db EXCEPT ![p] = [NoTestDB EXCEPT !.err = test_db[p].err]]
    /\ UNCHANGED postgres

\* What a provisioner does once it has started: the steps of provision and
\* of the drop of its instance.
Provisioning(p) ==
    \/ TryLock(p) \/ CloseLockTxn(p) \/ Sleep(p) \/ ResetDb(p) \/ InitDb(p)
Dropping(p) == DropLockTxn(p) \/ DropInst(p)

\* Tests that provision a TestDB on one database and drop it.
NextTestDB == \E p \in Provisioners : TestDB_provision(p) \/ Provisioning(p) \/ Dropping(p)
SpecTestDB == Init /\ [][NextTestDB]_vars

\* The same under a fair scheduler: a provisioner that can take its next
\* step takes it, and an instance that is ready is dropped.  Whether a test
\* provisions again is left open.
SpecTestDBFair ==
    /\ SpecTestDB
    /\ \A p \in Provisioners : WF_vars(Provisioning(p)) /\ WF_vars(Dropping(p))

\* ================================================================ claims
\* The tasks that hold the scan of handle c: they borrowed it and have not
\* yet released or dropped it.
ScanHolders(c) ==
    {t \in Tasks : task[t].pc \in {"scan_fetch", "scan_release"} /\ task[t].h = c}

\* A step in which an askar_scan_next call ends in ScanHandle::borrow: the
\* callback answers a scan_next and no task was started or advanced.
BorrowFailed == callback'.op = "scan_next" /\ task' = task

\* C1: at most one caller holds a scan at a time.  A borrow succeeds only on
\* a registered scan that is not checked out, and leaves it InUse; every
\* borrow of a scan that is InUse fails with Busy and changes nothing.
C1_ScanExclusive ==
    /\ [](\A c \in ScanHandles :
            /\ Cardinality(ScanHolders(c)) <= 1
            /\ ScanHolders(c) # {} => FFI_SCANS[c] \in {InUse, NoEntry})
    /\ [][\A c \in ScanHandles, t \in Tasks :
            (t \notin ScanHolders(c) /\ t \in ScanHolders(c)')
                => (FFI_SCANS[c] >= 0 /\ FFI_SCANS'[c] = InUse)]_vars
    /\ [][(BorrowFailed /\ FFI_SCANS[callback'.h] = InUse)
                => (callback'.err = "Busy" /\ FFI_SCANS' = FFI_SCANS)]_vars

\* C1 witness: a scan_next was answered Busy while another task holds the scan.
C1_Witness ==
    /\ callback.op = "scan_next"
    /\ callback.err = "Busy"
    /\ ScanHolders(callback.h) # {}

\* C2: release puts the scan back: after a release on a handle that is still
\* registered the slot holds exactly the scan the task released; the scan in
\* a slot changes only by being borrowed or removed; a borrow of such a slot
\* succeeds and hands out exactly the scan the slot held.
C2_ReleaseReturnsScan ==
    /\ [][\A t \in Tasks :
            (task[t].pc = "scan_release" /\ task'[t].pc = "idle"
                /\ FFI_SCANS[task[t].h] # NoEntry)
                => (FFI_SCANS'[task[t].h] = task[t].scan /\ task[t].scan >= 0)]_vars
    /\ [][\A c \in ScanHandles :
            (FFI_SCANS[c] >= 0 /\ FFI_SCANS'[c] # FFI_SCANS[c])
                => FFI_SCANS'[c] \in {InUse, NoEntry}]_vars
    /\ [][\A t \in Tasks :
            (task[t].pc = "idle" /\ task'[t].pc = "scan_fetch")
                => task'[t].scan = FFI_SCANS[task'[t].h]]_vars
    /\ [][BorrowFailed => FFI_SCANS[callback'.h] < 0]_vars

\* C2 witness: a scan that was advanced and released is back in its slot and
\* a later borrow has handed out that advanced scan.
C2_Witness ==
    \E t \in Tasks :
        /\ task[t].pc = "scan_fetch"
        /\ task[t].scan > 0
        /\ FFI_SCANS[task[t].h] = InUse

\* C3: once the callback of an askar_scan_next that borrowed the scan has
\* fired, the scan is no longer InUse, also when fetch_next failed.
C3_CheckoutGivenUp ==
    (callback.op = "scan_next"
        /\ callback.note \in {"released", "fetch_failed", "release_invalid"})
        => FFI_SCANS[callback.h] # InUse

\* The tasks that run an operation against the session of handle s.
SessionUsers(s) == {t \in Tasks : task[t].pc = "session_run" /\ task[t].h = s}

\* C4: operations on one session never overlap: at most one task runs an
\* operation against a session, and it holds the session's lock.
C4_SessionExclusive ==
    \A s \in SessionHandles :
        /\ Cardinality(SessionUsers(s)) <= 1
        /\ \A t \in SessionUsers(s) : anySession[s].lock = t

\* C4 witness: one task runs an operation on a session while a second call
\* on the same session waits for the lock.
C4_Witness ==
    \E t1, t2 \in Tasks :
        /\ task[t1].pc = "session_run"
        /\ task[t2].pc = "session_wait"
        /\ task[t1].h = task[t2].h
        /\ task[t1].op = "session_update"

\* C5: a close that finds the session shared reports Busy.
C5_CloseSharedIsBusy ==
    (callback.op = "session_close" /\ callback.note = "shared") => callback.err = "Busy"

\* C6: a close that finds the session shared leaves it registered.
C6_FailedCloseKeepsSession ==
    (callback.op = "session_close" /\ callback.note = "shared") => FFI_SESSIONS[callback.h]

\* C7: closing a transaction.  With commit = 0 the committed rows stay as
\* they are and the session is dropped with its buffered mutations; a close
\* with commit # 0 that owns the session and whose commit() succeeds makes
\* the committed rows exactly what the transaction saw.  Buffered mutations
\* reach the committed rows in no other way: the rows change only in such a
\* close or in an operation of a session that is not a transaction.
C7_CloseCommitFlag ==
    /\ [][\A t \in Tasks :
            (task[t].pc = "close_unwrap" /\ task'[t].pc = "idle"
                /\ anySession[task[t].h].txn)
            => LET s == task[t].h
                   h == anySession[s].store IN
               /\ task[t].arg = 0 => anyStore'[h].rows = anyStore[h].rows
               /\ (task[t].arg = 0 /\ callback'.err = "Success")
                    => (anySession'[s].state = "dropped"
                        /\ anySession'[s].ins = anySession[s].ins
                        /\ anySession'[s].del = anySession[s].del)
               /\ (task[t].arg # 0 /\ callback'.err = "Success")
                    => (anyStore'[h].rows = View(s)
                        /\ anySession'[s].state = "committed")]_vars
    /\ [][\A h \in StoreHandles :
            (anyStore[h].state # "none" /\ anyStore'[h].rows # anyStore[h].rows)
            => \E t \in Tasks :
                /\ task[t].pc \in {"close_unwrap", "session_run"}
                /\ anySession[task[t].h].store = h
                /\ \/ task[t].pc = "close_unwrap" /\ task[t].arg # 0
                   \/ task[t].pc = "session_run" /\ ~anySession[task[t].h].txn]_vars

\* C7 witness: a transaction with a buffered insert was closed with
\* commit = 0 and the row is not among the committed rows.
C7_Witness ==
    /\ callback.op = "session_close"
    /\ callback.arg = 0
    /\ callback.err = "Success"
    /\ anySession[callback.h].txn
    /\ anySession[callback.h].state = "dropped"
    /\ anySession[callback.h].ins # {}
    /\ anySession[callback.h].ins \cap anyStore[anySession[callback.h].store].rows = {}

\* C8: a re-key that finds the store shared reports Busy.
C8_RekeySharedIsBusy ==
    (callback.op = "store_rekey" /\ callback.note = "shared") => callback.err = "Busy"

\* C9: after a re-key whose backend operation failed the handle still
\* resolves to the store and the store still works.
C9_FailedRekeyKeepsStore ==
    (callback.op = "store_rekey" /\ callback.note = "rekey_failed")
        => (FFI_STORES[callback.h] /\ StoreUsable(callback.h))

\* C10: the wrap key is never rotated while a session started from the store
\* is registered.
C10_NoRekeyWithOpenSession ==
    [][\A t \in Tasks :
        (task[t].pc = "rekey_backend" /\ task'[t].pc = "rekey_replace")
            => \A s \in SessionHandles :
                ~(FFI_SESSIONS[s] /\ anySession[s].store = task[t].h)]_vars

\* C11: every lookup of a handle that is not in its registry (load, borrow,
\* release or remove, on a store, session or scan handle) fails with
\* NotFound.
C11_MissingHandleIsNotFound ==
    callback.note \in {"invalid", "release_invalid"} => callback.err = "NotFound"

\* C12: an async call that was given a callback and is over has invoked it.
\* A call that catch_err! refused is over: no task was spawned for it.
C12_CallbackInvoked ==
    (catch_err.op # "none" /\ catch_err.cb) => callback.op = catch_err.op

\* C13: a callback that carries an error code carries the empty sentinel (0)
\* as its output; an error code and a populated output never go together.
C13_ErrorHasEmptyOutput ==
    (callback.op # "none" /\ callback.err # "Success") => callback.res = 0

\* C13 witness: an askar_scan_next that had fetched entries failed in release
\* (the handle was freed meanwhile) and its callback carries no entry set.
C13_Witness ==
    /\ callback.op = "scan_next"
    /\ callback.note = "release_invalid"
    /\ callback.err # "Success"
    /\ callback.res = 0

\* C14: a negative limit is no limit and a non-negative limit is passed on
\* as it is.  askar_session_fetch_all returns every row the session sees
\* when limit < 0 and otherwise the first `limit` of them, none when
\* limit = 0; a scan started by askar_scan_start has all of its ScanLen
\* batches to give when limit < 0 and otherwise `limit` of them, none when
\* limit = 0.
C14_NegativeLimitUnbounded ==
    /\ [][\A t \in Tasks :
            (task[t].pc = "session_run" /\ task[t].op = "session_fetch_all"
                /\ task'[t].pc = "idle" /\ callback'.err = "Success")
            => LET n == Cardinality(View(task[t].h))
                   limit == task[t].arg IN
               callback'.res = IF limit < 0 \/ limit > n THEN n ELSE limit]_vars
    /\ [][\A t \in Tasks :
            (task[t].pc = "scan_create" /\ task'[t].pc = "idle" /\ callback'.err = "Success")
            => LET limit == task[t].arg
                   left == ScanLen - FFI_SCANS'[callback'.res] IN
               left = IF limit < 0 \/ limit > ScanLen THEN ScanLen ELSE limit]_vars

\* C14 witness: a fetch_all with limit = 0 on a session that sees a row
\* succeeded with an empty result.
C14_Witness ==
    /\ callback.op = "session_fetch_all"
    /\ callback.arg = 0
    /\ callback.err = "Success"
    /\ callback.res = 0
    /\ View(callback.h) # {}

\* A session operation or a scan start reaches the backend with an empty
\* category or an empty name.
EmptyKey(t) ==
    /\ task[t].pc \in {"session_run", "scan_create"}
    /\ \/ task[t].category = EmptyStr
       \/ task[t].op = "session_update" /\ task[t].name = EmptyStr

\* C15: an operation given an empty category or an empty name (count,
\* fetch_all, update, remove_all, scan start) fails with Input and leaves
\* the stores, the sessions' buffered mutations and the scans as they were.
C15_EmptyKeyIsInput ==
    [][\A t \in Tasks :
        (EmptyKey(t) /\ task'[t].pc = "idle")
        => /\ callback'.err = "Input"
           /\ anyStore' = anyStore
           /\ \A s \in SessionHandles :
                anySession'[s].ins = anySession[s].ins /\ anySession'[s].del = anySession[s].del
           /\ FFI_SCANS' = FFI_SCANS]_vars

\* C15 witness: an update with an empty name on an open session of a usable
\* store was answered with Input.
C15_Witness ==
    /\ callback.op = "session_update"
    /\ callback.note = "empty_key"
    /\ callback.err = "Input"
    /\ FFI_SESSIONS[callback.h]
    /\ StoreUsable(anySession[callback.h].store)

\* What session s sees after the step.
ViewAfter(s) ==
    IF anySession'[s].txn
    THEN (anyStore'[anySession'[s].store].rows \ anySession'[s].del) \cup anySession'[s].ins
    ELSE anyStore'[anySession'[s].store].rows

\* C16: askar_session_update takes the codes 0, 1, 2 as Insert, Replace,
\* Remove and refuses every other code before it spawns a task: the call
\* returns Input, no update runs with such a code, the session is not
\* locked and nothing changes.  Code 0 fails with Duplicate on a name the
\* session sees and otherwise adds it, code 1 adds it either way, code 2
\* fails with NotFound on a name the session does not see and otherwise
\* removes it.
C16_UpdateOperationCodes ==
    /\ [](\A t \in Tasks : task[t].op = "session_update" => task[t].arg \in {0, 1, 2})
    /\ [][(catch_err'.op = "session_update" /\ catch_err'.cb /\ catch_err'.arg \notin {0, 1, 2})
            => /\ catch_err'.err = "Input"
               /\ callback' = NoCallback
               /\ UNCHANGED <<task, storeVars, sessionVars, scanVars>>]_vars
    /\ [][\A t \in Tasks :
            (task[t].pc = "session_run" /\ task[t].op = "session_update"
                /\ task'[t].pc = "idle" /\ ~EmptyKey(t)
                /\ StoreUsable(anySession[task[t].h].store))
            => LET s == task[t].h
                   n == task[t].name
                   seen == n \in View(s) IN
               /\ (task[t].arg = 0 /\ seen) => callback'.err = "Duplicate"
               /\ (task[t].arg = 2 /\ ~seen) => callback'.err = "NotFound"
               /\ (task[t].arg = 1 \/ (task[t].arg = 0 /\ ~seen))
                    => (callback'.err = "Success" /\ n \in ViewAfter(s))
               /\ (task[t].arg = 2 /\ seen)
                    => (callback'.err = "Success" /\ n \notin ViewAfter(s))
               /\ callback'.err # "Success" => ViewAfter(s) = View(s)]_vars

\* C16 witness: a call with operation code 3 on a registered session, given
\* a callback, a category and a name, was refused.
C16_Witness ==
    /\ catch_err.op = "session_update"
    /\ catch_err.arg = 3
    /\ catch_err.cb
    /\ \E s \in SessionHandles : FFI_SESSIONS[s] /\ anySession[s].ins # {}

\* C17: clone, as_ref and into_owned keep what a PassKey is: an absent
\* PassKey stays absent, a PassKey that holds a string holds the same string
\* afterwards and is not absent.
C17_AbsentPreserved ==
    result.fn \in {"clone", "as_ref", "into_owned"}
        => /\ PassKey_is_none(result.val) = PassKey_is_none(result.of)
           /\ PassKey_deref(result.val) = PassKey_deref(result.of)

\* C18: an absent PassKey is never equal to a PassKey that holds "", and two
\* PassKeys that hold the same string are equal.
C18_AbsentIsNotEmpty ==
    result.fn = "eq"
        => /\ (PassKey_is_none(result.of) /\ result.other.some /\ result.other.str = "")
                => ~result.val
           /\ (result.of.some /\ result.other.some /\ result.of.str = result.other.str)
                => result.val

C20_PrvKeyZeroized ==
    /\ \A r \in released :
          /\ r.by = "KeyParams::zeroize"
          /\ \A i \in DOMAIN r.bytes : r.bytes[i] = 0
    /\ result.fn = "zeroize"
          => /\ result.val.prv_key = <<>>
             /\ params.prv_key = <<>>
             /\ \A f \in {"alg", "metadata", "reference", "pub_key"} :
                   result.val[f] = result.of[f]
    /\ result.fn = "into_parts"
          => result.val = result.of /\ params = result.of

\* C20 witness: a key entry whose params hold the private key <<1, 2>> was
\* exported, and its buffer was freed overwritten by KeyParams::zeroize.
C20_Witness ==
    /\ result.fn = "export_key_entry"
    /\ result.of.prv_key = <<(<<1, 2>>)>>
    /\ [bytes |-> <<0, 0>>, by |-> "KeyParams::zeroize"] \in released

\* C21: a PassKey gives up a string it owns only overwritten: zeroize and
\* drop scrub the owned string before it is freed and leave the PassKey
\* absent; into_owned hands an owned string over to its result (and copies a
\* borrowed one) and leaves no owned string behind in the PassKey it took.
C21_PassKeyScrubbed ==
    /\ \A r \in released :
          /\ r.by = "PassKey::zeroize"
          /\ \A i \in DOMAIN r.bytes : r.bytes[i] = 0
    /\ result.fn \in {"zeroize", "drop"}
          => /\ PassKey_is_none(result.val)
             /\ (result.of.some /\ result.of.owned)
                  => [bytes |-> String_zeroize(StrBytes(result.of.str)),
                      by |-> "PassKey::zeroize"] \in released
    /\ result.fn = "into_owned"
          => /\ result.of.some
                  => result.val = [some |-> TRUE, owned |-> TRUE, str |-> result.of.str]
             /\ ~result.of.some => PassKey_is_none(result.val)

\* C21 witness: a PassKey that owned "a" was dropped and its buffer was freed
\* overwritten.
C21_Witness ==
    /\ result.fn = "drop"
    /\ result.of = [some |-> TRUE, owned |-> TRUE, str |-> "a"]
    /\ [bytes |-> <<0>>, by |-> "PassKey::zeroize"] \in released

\* C22: verkey() and private_key() of a key entry whose algorithm is not
\* ed25519 fail with Unsupported, with or without the key bytes; of an
\* ed25519 entry they fail with Input when the key bytes are absent and
\* succeed with those bytes otherwise.
C22_KeyAccessErrors ==
    result.fn \in {"verkey", "private_key"}
        => LET key == IF result.fn = "verkey" THEN result.of.pub_key ELSE result.of.prv_key IN
           /\ KeyAlg_as_str(result.of.alg) # "ed25519" => result.val.err = "Unsupported"
           /\ (result.of.alg = ED25519 /\ key = <<>>) => result.val.err = "Input"
           /\ (result.of.alg = ED25519 /\ key # <<>>)
                => result.val = [err |-> "Success", key |-> key]

\* C23: no task holds a registry mutex while it waits for another lock or
\* while the backend works: a task that waits for a session's mutex does not
\* hold FFI_SESSIONS, so the registry is free whenever a task is suspended.
C23_RegistryLockNotHeld ==
    /\ FFI_SESSIONS_lock = NoTask
    /\ \A t \in Tasks : task[t].pc = "session_wait" => FFI_SESSIONS_lock # t

\* C24: handle ids only grow and are never reused.  The counters never go
\* down, no handle above its counter is or was in use, and a create returns
\* a handle that is not 0, is above every handle its registry has returned
\* so far and has never designated an object.
C24_HandlesNeverReused ==
    /\ [](/\ \A h \in StoreHandles : (FFI_STORES[h] \/ anyStore[h] # NoStore) => h <= FFI_STORE_COUNTER
          /\ \A s \in SessionHandles :
                (FFI_SESSIONS[s] \/ anySession[s] # NoSession) => s <= FFI_SESSION_COUNTER
          /\ \A c \in ScanHandles : FFI_SCANS[c] # NoEntry => c <= FFI_SCAN_COUNTER)
    /\ [][/\ FFI_STORE_COUNTER' >= FFI_STORE_COUNTER
          /\ FFI_SESSION_COUNTER' >= FFI_SESSION_COUNTER
          /\ FFI_SCAN_COUNTER' >= FFI_SCAN_COUNTER
          /\ (callback'.op = "store_provision" /\ callback'.err = "Success")
                => /\ callback'.res # 0
                   /\ callback'.res > FFI_STORE_COUNTER
                   /\ FFI_STORE_COUNTER' = callback'.res
                   /\ anyStore[callback'.res] = NoStore
          /\ (callback'.op = "session_start" /\ callback'.err = "Success")
                => /\ callback'.res # 0
                   /\ callback'.res > FFI_SESSION_COUNTER
                   /\ FFI_SESSION_COUNTER' = callback'.res
                   /\ anySession[callback'.res] = NoSession
          /\ (callback'.op = "scan_start" /\ callback'.err = "Success")
                => /\ callback'.res # 0
                   /\ callback'.res > FFI_SCAN_COUNTER
                   /\ FFI_SCAN_COUNTER' = callback'.res
                   /\ FFI_SCANS[callback'.res] = NoEntry]_vars

\* C24 witness: after the first session handle and the first scan handle
\* were removed, a session start returned the second session handle.
C24_Witness ==
    /\ callback.op = "session_start"
    /\ callback.err = "Success"
    /\ callback.res = 2
    /\ ~FFI_SESSIONS[1]
    /\ anySession[1].state # "none"
    /\ FFI_SCAN_COUNTER = 1
    /\ FFI_SCANS[1] = NoEntry

\* C25: askar_store_close takes the handle out of FFI_STORES before it
\* closes the store and nothing puts it back.  While the close runs and
\* after it is over, whether arc_close succeeded or failed, the handle does
\* not resolve; the tasks that loaded the store earlier keep their Arc; and
\* a close of a handle that is not registered is answered with the
\* invalid-handle error.
C25_CloseUnregisters ==
    /\ [](\A t \in Tasks : task[t].pc = "store_close" => ~FFI_STORES[task[t].h])
    /\ [][\A t \in Tasks :
            (task[t].pc = "store_close" /\ task'[t].pc = "idle")
            => /\ callback'.op = "store_close"
               /\ callback'.err \in {"Success", "Backend"}
               /\ ~FFI_STORES'[task[t].h]
               /\ \A u \in Tasks \ {t} : task'[u] = task[u]]_vars
    /\ [][\A h \in StoreHandles :
            (anyStore[h].state = "closed" /\ ~FFI_STORES[h]) => ~FFI_STORES'[h]]_vars
    /\ [][\A h \in StoreHandles :
            (callback'.op = "store_close" /\ callback'.h = h /\ ~FFI_STORES[h]
                /\ \A t \in Tasks : task[t].pc # "store_close")
            => (callback'.note = "invalid" /\ callback'.err = DefaultKind)]_vars

\* C25 witness: a close whose arc_close failed is over, the handle is out of
\* the registry, and a session start that loaded the store earlier still
\* holds it.
C25_Witness ==
    /\ callback.op = "store_close"
    /\ callback.note = "close_failed"
    /\ ~FFI_STORES[callback.h]
    /\ \E t \in Tasks : task[t].pc = "start_create" /\ task[t].store = callback.h

\* C27: a re-key that is rejected because the store is shared changes
\* nothing.  The steps of such a re-key leave every store as it was (no
\* wrap key changes) and every other task as it was, and when the rejection
\* is delivered the handle is registered again for the same store.
C27_RejectedRekeyNoEffect ==
    /\ [][\A t \in Tasks :
            (task[t].pc = "rekey_unwrap" /\ task'[t].pc = "rekey_shared")
            => /\ anyStore' = anyStore
               /\ FFI_STORES' = FFI_STORES
               /\ \A u \in Tasks \ {t} : task'[u] = task[u]]_vars
    /\ [][\A t \in Tasks :
            (task[t].pc = "rekey_shared" /\ task'[t].pc = "idle")
            => /\ callback'.op = "store_rekey"
               /\ callback'.err # "Success"
               /\ FFI_STORES'[task[t].h]
               /\ anyStore' = anyStore
               /\ anyStore'[task[t].h].state = "open"
               /\ \A u \in Tasks \ {t} : task'[u] = task[u]]_vars
    /\ [](\A t \in Tasks :
            task[t].pc \in {"rekey_unwrap", "rekey_shared"} => anyStore[task[t].h].state = "open")

\* C27 witness: a re-key to another pass key was rejected while a session
\* start held the store; the handle resolves and the store has its old key.
C27_Witness ==
    /\ callback.op = "store_rekey"
    /\ callback.note = "shared"
    /\ FFI_STORES[callback.h]
    /\ anyStore[callback.h].state = "open"
    /\ anyStore[callback.h].key # callback.arg
    /\ \E t \in Tasks : task[t].pc = "start_create" /\ task[t].store = callback.h

\* C28: the handle of a store that was created and has not been closed
\* resolves on every load: a session start on such a handle is never
\* answered with the invalid-handle error.
C28_OpenHandleResolves ==
    (callback.op = "session_start" /\ callback.note = "invalid")
        => \/ callback.h > FFI_STORE_COUNTER
           \/ anyStore[callback.h].state # "open"
           \/ \E t \in Tasks : task[t].op = "store_close" /\ task[t].h = callback.h

\* C30: a remove of a scan that is checked out fails with Busy and leaves
\* the scan registered and checked out, so that the askar_scan_next in flight
\* can put it back.
C30_BusyRemoveKeepsScan ==
    (callback.op = "scan_free" /\ callback.err = "Busy") => FFI_SCANS[callback.h] = InUse

\* C29: the return code and the callback exclude each other.  A call that
\* returns an error code spawns no task, changes no registry, store or
\* session, and invokes no callback; a step that starts or runs a task or
\* invokes a callback returns no error code, and a task that ends hands its
\* outcome to the callback of its call.
C29_ReturnCodeOrCallback ==
    /\ [](~(catch_err.op # "none" /\ callback.op # "none"))
    /\ [][catch_err'.op # "none"
            => /\ catch_err'.err # "Success"
               /\ callback' = NoCallback
               /\ UNCHANGED <<task, storeVars, sessionVars, scanVars>>]_vars
    /\ [][(task' # task \/ callback'.op # "none") => catch_err' = NoError]_vars
    /\ [][\A t \in Tasks :
            (task[t].pc # "idle" /\ task'[t].pc = "idle")
            => (callback'.op = task[t].op /\ callback'.h = task[t].h)]_vars

\* C29 witness: an askar_store_provision given a callback and a wrap-key
\* method that does not parse was refused while a store was registered.
C29_Witness ==
    /\ catch_err.op = "store_provision"
    /\ catch_err.cb
    /\ catch_err.err = "Input"
    /\ callback = NoCallback
    /\ \E h \in StoreHandles : FFI_STORES[h]

\* The tags of a key entry as a list (no list is the empty list), how often
\* a tag occurs in it, and whether two lists are permutations of each other.
TagList(entry) == IF entry.tags = <<>> THEN <<>> ELSE entry.tags[1]
TagCount(tags, tag) == Cardinality({i \in DOMAIN tags : tags[i] = tag})
IsPermutation(tags1, tags2) == \A tag \in EntryTags : TagCount(tags1, tag) = TagCount(tags2, tag)
TagSet(entry) == {TagList(entry)[i] : i \in DOMAIN TagList(entry)}

\* C26: equality of key entries does not look at the order of the tags.  Two
\* entries with the same category, ident and params whose tag lists are
\* permutations of each other are equal; entries that differ in category,
\* ident, params or in their set of tags are unequal; and the relation is
\* reflexive, symmetric and transitive.
C26_KeyEntryEqIgnoresTagOrder ==
    result.fn = "key_entry_eq"
        => LET a == result.of[1]
               b == result.of[2]
               same == a.category = b.category /\ a.ident = b.ident /\ a.params = b.params
           IN  /\ (same /\ a.tags # <<>> /\ b.tags # <<>>
                      /\ IsPermutation(TagList(a), TagList(b))) => result.val.ab
               /\ (~same \/ TagSet(a) # TagSet(b)) => ~result.val.ab
               /\ result.val.aa
               /\ result.val.ab = result.val.ba
               /\ (result.val.ab /\ result.val.bc) => result.val.ac

\* C26 witness: two key entries whose tag lists <<1, 2>> and <<2, 1>> differ
\* only in order were compared, and found equal.
C26_Witness ==
    /\ result.fn = "key_entry_eq"
    /\ result.of[1].tags = <<(<<1, 2>>)>>
    /\ result.of[2].tags = <<(<<2, 1>>)>>
    /\ result.of[1].category = result.of[2].category
    /\ result.of[1].params = result.of[2].params
    /\ result.val.ab

\* C31: an entry set is a forward-only cursor.  Over every interleaving of
\* the calls of next(), each position of the atomic counter is handed to
\* exactly one call; a call that got a position below the number of rows
\* returns found = 1 with the row of that position, every call that got a
\* later position returns found = 0, and no row is returned to two calls.
C31_EntrySetForwardOnly ==
    LET returned == entry_set.returned
        fetched == {c \in Callers : entry_set.next[c].pc = "fetched"} IN
    /\ \A i \in 1..Len(returned) :
          /\ returned[i].pos < Len(entry_set.rows)
                => returned[i].found = 1 /\ returned[i].entry = entry_set.rows[returned[i].pos + 1]
          /\ returned[i].pos >= Len(entry_set.rows)
                => returned[i].found = 0 /\ returned[i].entry = NoFfiEntry
    /\ \A i, j \in 1..Len(returned) : i # j => returned[i].pos # returned[j].pos
    /\ \A c, d \in fetched : c # d => entry_set.next[c].pos # entry_set.next[d].pos
    /\ {returned[i].pos : i \in 1..Len(returned)} \cup {entry_set.next[c].pos : c \in fetched}
          = 0..(entry_set.pos - 1)
    /\ Len(returned) + Cardinality(fetched) = entry_set.pos
\* two rows went to different callers, a later call found nothing, and the
\* calls did not end in the order of their positions
C31_Witness ==
    LET returned == entry_set.returned IN
    /\ Len(entry_set.rows) = 2
    /\ \E i, j, k \in 1..Len(returned) :
          /\ returned[i].found = 1 /\ returned[j].found = 1 /\ returned[k].found = 0
          /\ returned[i].caller # returned[j].caller
          /\ i < j /\ returned[i].pos > returned[j].pos

\* C32: the end of a scan is signalled as a success.  (1) A scan_next that
\* succeeds with the invalid entry-set handle 0 leaves the scan registered,
\* not checked out, at its end.  (2) A fetch finds no batch exactly when the
\* scan is at its end, and then leaves the scan where it is; a fetch that
\* finds a batch moves the scan on by one.  (3) A scan_next that releases a
\* scan whose handle is still registered succeeds, puts the scan back as
\* the fetch left it, and carries the handle 0 exactly when the fetch found
\* no batch, so a non-zero handle always carries a batch.  (4) A scan at its
\* end stays there, so every later scan_next on it ends the same way.
AtEnd(scan) == scan = ScanLen
C32_EndOfScanIsSuccess ==
    /\ [](callback.op = "scan_next" /\ callback.err = "Success" /\ callback.res = 0
            => AtEnd(FFI_SCANS[callback.h]))
    /\ [][\A t \in Tasks :
            /\ task[t].pc = "scan_fetch" /\ task'[t].pc = "scan_release"
                  => /\ task'[t].res = 0 <=> AtEnd(task[t].scan)
                     /\ task'[t].res = 0 => task'[t].scan = task[t].scan
                     /\ task'[t].res # 0 => task'[t].scan = task[t].scan + 1
            /\ task[t].pc = "scan_release" /\ task'[t].pc = "idle"
                  /\ FFI_SCANS[task[t].h] # NoEntry
                  => /\ callback'.op = "scan_next" /\ callback'.h = task[t].h
                     /\ callback'.err = "Success"
                     /\ callback'.res = 0 <=> task[t].res = 0
                     /\ FFI_SCANS'[task[t].h] = task[t].scan
            /\ task[t].pc \in {"scan_fetch", "scan_release"} /\ AtEnd(task[t].scan)
                  /\ task'[t].pc # "idle"
                  => AtEnd(task'[t].scan)]_vars
    /\ [][\A c \in ScanHandles :
            AtEnd(FFI_SCANS[c]) => AtEnd(FFI_SCANS'[c]) \/ FFI_SCANS'[c] \in {InUse, NoEntry}]_vars
    /\ [][\A t \in Tasks, c \in ScanHandles :
            AtEnd(FFI_SCANS[c]) /\ task'[t].pc = "scan_fetch" /\ task[t].pc = "idle"
                  /\ task'[t].h = c
                  => AtEnd(task'[t].scan)]_vars
\* a scan_next found its scan at its end: it was answered with Success and
\* the handle 0, and the scan is back in the registry, still at its end
C32_Witness ==
    /\ callback.op = "scan_next" /\ callback.err = "Success" /\ callback.res = 0
    /\ callback.note = "released"
    /\ AtEnd(FFI_SCANS[callback.h])
    /\ FFI_SCAN_COUNTER = MaxScans

\* C33: at most one TestDB holds advisory lock 99999 at any time, and the
\* tables are reset and initialised only by a provisioner that took the lock
\* before the step and still holds it after the step; a provisioner that is
\* past the lock loop, or whose instance is ready, holds the lock.
C33_OneLockHolder ==
    /\ [](/\ Cardinality(postgres.lock) <= 1
          /\ \A p \in Provisioners :
                test_db[p].pc \in {"reset", "init", "ready"} => p \in postgres.lock)
    /\ [][postgres'.tables # postgres.tables
            => /\ postgres'.tables.by \in postgres.lock
               /\ postgres'.tables.by \in postgres'.lock]_vars
\* one provisioner has reset the tables under the lock while another, whose
\* try did not get the lock, waits
C33_Witness ==
    \E p, q \in Provisioners :
        /\ p # q
        /\ test_db[p].pc = "init" /\ postgres.tables = [by |-> p, state |-> "reset"]
        /\ postgres.lock = {p}
        /\ test_db[q].pc = "sleep"

\* C34: provision blocks until every existing TestDB is dropped: the tables
\* are never reset or initialised while the store of another instance is
\* still open.
C34_ResetAfterDrop ==
    [][postgres'.tables # postgres.tables
         => \A q \in Provisioners \ {postgres'.tables.by} : ~test_db[q].inst]_vars

\* C35: the lock loop makes progress.  A provisioner has at most one lock
\* connection open, and none while it sleeps; provision returns no error
\* but that of a failed database call, and a try that finds the lock held
\* goes on to close its connection and retry; and, under a fair scheduler
\* that also drops every lock holder, every provisioner that waits for the
\* lock eventually gets it (or is ended by a failed database call).
Waiting(p) == test_db[p].pc \in {"lock", "close", "sleep"}
LockLoopSafe ==
    /\ [](\A p \in Provisioners :
            /\ test_db[p].lock_txn <= 1
            /\ test_db[p].pc \in {"none", "lock", "sleep", "drop_inst"} => test_db[p].lock_txn = 0
            /\ test_db[p].err \in {"", "Backend"})
    /\ [][\A p \in Provisioners :
            test_db[p].pc = "lock" /\ postgres.lock # {} /\ test_db'[p] # test_db[p]
               => \/ test_db'[p].pc = "close" /\ test_db'[p].err = ""
                  \/ test_db'[p].pc = "none" /\ test_db'[p].err = "Backend"]_vars
C35_EveryWaiterAcquires ==
    /\ LockLoopSafe
    /\ \A p \in Provisioners :
          Waiting(p) ~> (test_db[p].pc = "reset" \/ test_db[p].err = "Backend")

\* C35 as the code has it: the same, except that the loop polls without a
\* queue, so a provisioner waits forever only if other provisioners take
\* the lock again and again.
C35_WaitsOnlyBehindOthers ==
    /\ LockLoopSafe
    /\ \A p \in Provisioners :
          <>[]Waiting(p) => []<>(\E q \in Provisioners \ {p} : test_db[q].pc = "reset")
\* a provisioner whose try found the lock held has closed its connection
\* and sleeps, while the holder's instance is ready
C35_Witness ==
    \E p, q \in Provisioners :
        /\ test_db[p].pc = "sleep" /\ test_db[p].lock_txn = 0 /\ test_db[p].err = ""
        /\ test_db[q].pc = "ready" /\ postgres.lock = {q}

\* C36: askar_session_update turns every negative expiry_ms into no expiry
\* and keeps every other expiry_ms, 0 included, as it is; the task gives the
\* session the expiry it kept, and the value as a present slice, whatever
\* the operation and however empty the buffer.
C36_ExpiryAndValuePassed ==
    /\ [][\A t \in Tasks, s \in SessionHandles, o \in Operations, n \in Names,
             v \in Buffers, e \in ExpiryMs :
            task[t].pc = "idle" /\ task'[t].op = "session_update" /\ task'[t].h = s
               /\ askar_session_update(t, s, o, 1, n, v, NullPtr, e, TRUE)
               => /\ e < 0 => task'[t].expiry_ms = <<>>
                  /\ e >= 0 => task'[t].expiry_ms = <<e>>
                  /\ task'[t].arg = o]_vars
    /\ [][\A t \in Tasks :
            task[t].op = "session_update" /\ task[t].pc = "session_run" /\ task'[t].pc = "idle"
               => /\ session_update'.expiry_ms = task[t].expiry_ms
                  /\ Len(session_update'.value) = 1
                  /\ session_update'.value[1] = task[t].value
                  /\ session_update'.operation = EntryOperation(task[t].arg)[1]]_vars
    /\ [](session_update.operation # "none" => Len(session_update.value) = 1)
\* a Remove with expiry_ms 0 and an empty buffer reached the session with
\* the expiry 0 and a present, empty value
C36_Witness ==
    /\ session_update.operation = "Remove"
    /\ session_update.expiry_ms = <<0>>
    /\ session_update.value = << <<>> >>
    /\ callback.op = "session_update"

\* C37: recipient parsing ends for every input string and yields exactly
\* the comma-separated segments in their order, leaving out only a final
\* segment that is empty; the empty string yields no recipient, for which
\* pack_message fails with Input; and no parsed recipient is empty.
Commas(str) == {i \in 1..Len(str) : str[i] = ","}
\* the position of the k-th comma of str; 0 for k = 0, Len(str) + 1 past the last
CommaAt(str, k) ==
    IF k = 0 THEN 0
    ELSE IF k > Cardinality(Commas(str)) THEN Len(str) + 1
    ELSE CHOOSE i \in Commas(str) : Cardinality({j \in Commas(str) : j <= i}) = k
Segment(str, k) == SubSeq(str, CommaAt(str, k - 1) + 1, CommaAt(str, k) - 1)
Segments(str) ==
    LET n == Cardinality(Commas(str)) + 1
        all == [k \in 1..n |-> Segment(str, k)] IN
    IF all[n] = <<>> THEN SubSeq(all, 1, n - 1) ELSE all
ParsedAsSegments ==
    /\ [][\A t \in Tasks, s \in SessionHandles, r \in RecipientStrs :
            task[t].pc = "idle" /\ task'[t].op = "session_pack_message" /\ task'[t].h = s
               /\ askar_session_pack_message(t, s, [null |-> FALSE, str |-> r], TRUE)
               => /\ task'[t].recipient_vks = Segments(r)
                  /\ r = <<>> => task'[t].recipient_vks = <<>>]_vars
    /\ [][\A t \in Tasks :
            task[t].op = "session_pack_message" /\ task[t].pc = "session_run"
               /\ task[t].recipient_vks = <<>> /\ task'[t].pc = "idle"
               => callback'.op = "session_pack_message" /\ callback'.err = "Input"]_vars
C37_NoEmptyRecipient ==
    /\ ParsedAsSegments
    /\ [](\A t \in Tasks : \A i \in 1..Len(task[t].recipient_vks) :
             task[t].recipient_vks[i] # <<>>)

\* C37 as the code has it: the same, except that a segment that is empty and
\* not the last one (before a leading comma, or between two commas) is kept
\* as an empty recipient: the parsed list has an empty recipient exactly
\* when the string starts with a comma or has two commas in a row.
EmptySegmentKept(str) ==
    \/ str # <<>> /\ str[1] = ","
    \/ \E i \in 1..(Len(str) - 1) : str[i] = "," /\ str[i + 1] = ","
C37_OnlyFinalEmptyOmitted ==
    /\ ParsedAsSegments
    /\ [][\A t \in Tasks, s \in SessionHandles, r \in RecipientStrs :
            task[t].pc = "idle" /\ task'[t].op = "session_pack_message" /\ task'[t].h = s
               /\ askar_session_pack_message(t, s, [null |-> FALSE, str |-> r], TRUE)
               => ((\E i \in 1..Len(task'[t].recipient_vks) : task'[t].recipient_vks[i] = <<>>)
                     <=> EmptySegmentKept(r))]_vars
\* a string such as ",a" was parsed into an empty recipient and "a"
C37_Witness ==
    \E t \in Tasks :
        /\ task[t].op = "session_pack_message"
        /\ task[t].recipient_vks = << <<>>, <<"a">> >>
====
